---- MODULE Spec2Model ----
(***************************************************************************)
(* Model of the authentication core of the antique-catalogue backend:      *)
(* backend/app/core/security.py (password hashing, JWT issue and decode)   *)
(* and the call sites in backend/app/api/deps.py, auth.py and admin.py.    *)
(*                                                                         *)
(* Strings are sequences of character codes.  Codes 0..63 are the          *)
(* base64url alphabet in its usual order (A-Z a-z 0-9 - _), so that the    *)
(* digits '0'..'9' are 52..61 and '-' is 62; the other codes are single    *)
(* characters outside that alphabet.  Byte strings are sequences of        *)
(* 0..255.                                                                  *)
(***************************************************************************)
EXTENDS Integers, Sequences, FiniteSets, TLC

VARIABLES
    now,            \* wall clock, in ticks of 1/TicksPerSec second
    jwt_algorithm,  \* settings.jwt_algorithm, fixed after start-up
    token,          \* the token under study, with how it was made
    presented,      \* the string last given to decode_token
    result,         \* what decode_token did with it
    pw,             \* password-hashing scenario: stored string, plain, outcome
    settings,       \* settings.admin_email and settings.admin_password
    users,          \* the users table, by id
    email_tokens,   \* the email_tokens table, by id
    held,           \* the tokens clients have been given and kept
    cookie,         \* the browser's refresh_token cookie
    resp,           \* the request last made and the response to it
    meta,           \* metadata scenario: field list, document, what was done
    field_definitions,      \* the field_definitions table, by id
    schema_template_fields, \* the schema_template_fields table, by id
    items,          \* the items table, by id
    inflight,       \* field requests past their existence check, not committed
    answer,         \* the catalogue request last made and the response to it
    collections,        \* the collections table, by id
    schema_templates,   \* the schema_templates table, by id
    collection_stars,   \* the collection_stars table
    activity_logs       \* the activity_logs table

authVars == <<settings, users, email_tokens, held, cookie, resp>>
catalogVars == <<meta, field_definitions, schema_template_fields, items,
                 inflight, answer>>
communityVars == <<collections, schema_templates, collection_stars, activity_logs>>
securityVars == <<now, jwt_algorithm, token, presented, result, pw, authVars>>
vars == <<now, jwt_algorithm, token, presented, result, pw, authVars, catalogVars,
          communityVars>>

(***************************************************************************)
(* Bounds of the model.                                                    *)
(***************************************************************************)
MaxNow == 6
MaxUsers == 1
MaxEmailTokens == 2
MaxHeld == 3
MaxFields == 2
MaxKeys == 2
MaxRows == 2
MaxTemplateRows == 1
MaxItems == 1
MaxId == 2
MaxClients == 2

(***************************************************************************)
(* Characters.                                                             *)
(***************************************************************************)
Pad == 64        \* '='
Dot == 65        \* '.'
Plus == 66       \* '+'
Slash == 67      \* '/'
Dollar == 68     \* '$'
Bang == 69       \* '!', standing for any other ASCII character
NonAscii == 70   \* a character outside ASCII
Space == 71      \* ' '

Chars == 0..71

IsAscii(s) == \A i \in 1..Len(s) : s[i] # NonAscii

\* the exception classes that `except ValueError` catches
ValueErrors ==
    {"ValueError", "binascii.Error", "UnicodeEncodeError",
     "UnicodeDecodeError", "JSONDecodeError", "TokenError"}

(***************************************************************************)
(* base64url, as security.py uses it.                                      *)
(***************************************************************************)
RECURSIVE B64Groups(_)
B64Groups(d) ==
    IF Len(d) = 0 THEN <<>>
    ELSE IF Len(d) = 1 THEN
        <<d[1] \div 4, (d[1] % 4) * 16, Pad, Pad>>
    ELSE IF Len(d) = 2 THEN
        <<d[1] \div 4, (d[1] % 4) * 16 + d[2] \div 16, (d[2] % 16) * 4, Pad>>
    ELSE
        <<d[1] \div 4, (d[1] % 4) * 16 + d[2] \div 16,
          (d[2] % 16) * 4 + d[3] \div 64, d[3] % 64>>
        \o B64Groups(SubSeq(d, 4, Len(d)))

RECURSIVE RStrip(_, _)
RStrip(s, c) ==
    IF Len(s) > 0 /\ s[Len(s)] = c THEN RStrip(SubSeq(s, 1, Len(s) - 1), c)
    ELSE s

\* _b64url_encode: urlsafe_b64encode(data).decode("ascii").rstrip("=")
B64urlEncode(data) == RStrip(B64Groups(data), Pad)

\* the value of a character in the decoder's table, after urlsafe_b64decode
\* has translated '-' and '_' to '+' and '/': -1 for a character that the
\* non-strict decoder skips
Sextet(c) ==
    IF c \in 0..63 THEN c
    ELSE IF c = Plus THEN 62
    ELSE IF c = Slash THEN 63
    ELSE -1

\* binascii.a2b_base64 in its default, non-strict mode: one character of
\* the scan.  st.stop is set when the padding that ends the data was read.
A2BStep(st, c) ==
    IF st.stop THEN st
    ELSE IF c = Pad THEN
        IF st.qp >= 2 /\ st.qp + st.pads + 1 >= 4 THEN [st EXCEPT !.stop = TRUE]
        ELSE IF st.qp >= 2 THEN [st EXCEPT !.pads = st.pads + 1]
        ELSE st
    ELSE IF Sextet(c) < 0 THEN st
    ELSE
        LET v == Sextet(c) IN
        CASE st.qp = 0 ->
                [st EXCEPT !.qp = 1, !.left = v, !.pads = 0]
          [] st.qp = 1 ->
                [st EXCEPT !.qp = 2, !.left = v % 16, !.pads = 0,
                           !.out = Append(st.out, st.left * 4 + v \div 16)]
          [] st.qp = 2 ->
                [st EXCEPT !.qp = 3, !.left = v % 4, !.pads = 0,
                           !.out = Append(st.out, st.left * 16 + v \div 4)]
          [] OTHER ->
                [st EXCEPT !.qp = 0, !.left = 0, !.pads = 0,
                           !.out = Append(st.out, st.left * 64 + v)]

\* the scan of s[lo..hi], left to right
RECURSIVE A2BRun(_, _, _, _)
A2BRun(st, s, lo, hi) ==
    IF lo > hi THEN st
    ELSE IF lo = hi THEN A2BStep(st, s[lo])
    ELSE LET half == A2BRun(st, s, lo, (lo + hi) \div 2) IN
         IF half.stop THEN half
         ELSE A2BRun(half, s, (lo + hi) \div 2 + 1, hi)

A2B(s) ==
    LET st == A2BRun([qp |-> 0, left |-> 0, pads |-> 0, out |-> <<>>, stop |-> FALSE],
                     s, 1, Len(s))
    IN  IF st.stop \/ st.qp = 0 THEN [exc |-> "none", bytes |-> st.out]
        ELSE [exc |-> "binascii.Error", bytes |-> <<>>]

\* _b64url_decode: pad to a multiple of four, then urlsafe_b64decode
B64urlDecode(data) ==
    LET padding == [i \in 1..((4 - (Len(data) % 4)) % 4) |-> Pad] IN
    IF ~IsAscii(data) THEN [exc |-> "ValueError", bytes |-> <<>>]
    ELSE A2B(data \o padding)

(***************************************************************************)
(* HMAC-SHA256 and PBKDF2.  The digest is a stand-in for SHA-256: a        *)
(* deterministic function of the key block and the message to DigestLen    *)
(* bytes.  The key handling is HMAC's: a key shorter than the block is     *)
(* padded with zero bytes to BlockSize.  The scans below split their range *)
(* in two and finish the left half before they start the right one.        *)
(***************************************************************************)
DigestLen == 32
BlockSize == 64

PadKey(key) == key \o [i \in 1..(BlockSize - Len(key)) |-> 0]

\* the digest state after absorbing s[lo..hi], left to right
MixByte(h, c) == (h * 31 + c + 1) % 65521

RECURSIVE Mix(_, _, _, _)
Mix(h, s, lo, hi) ==
    IF lo > hi THEN h
    ELSE IF lo = hi THEN MixByte(h, s[lo])
    ELSE IF lo + 1 = hi THEN MixByte(MixByte(h, s[lo]), s[hi])
    ELSE IF lo + 2 = hi THEN MixByte(MixByte(MixByte(h, s[lo]), s[lo + 1]), s[hi])
    ELSE IF lo + 3 = hi
    THEN MixByte(MixByte(MixByte(MixByte(h, s[lo]), s[lo + 1]), s[lo + 2]), s[hi])
    ELSE LET half == Mix(h, s, lo, (lo + hi) \div 2) IN
         IF half >= 0 THEN Mix(half, s, (lo + hi) \div 2 + 1, hi) ELSE half

Hmac(key, msg) ==
    LET k == Mix(7, PadKey(key), 1, BlockSize)
        h == Mix(k, msg, 1, Len(msg))
    IN  [i \in 1..DigestLen |->
            (h * (i + 2) + (h \div 256) + i * k + i * i * (h % 7)) % 256]

\* settings.jwt_secret, as bytes
JwtSecret == <<115, 51, 99>>

(***************************************************************************)
(* JSON.  A dict is a sequence of <<key, value>> pairs in insertion order. *)
(* Values are codes: 0..199 the integers, 200.. the strings of Strs, and   *)
(* Null.  A JSON text is the byte sequence '{' k1 v1 k2 v2 ... '}' with    *)
(* one byte per key and per value; '[]' is the empty list.                 *)
(***************************************************************************)
Keys == <<"sub", "type", "iat", "exp", "alg", "typ", "role">>
Strs == <<"access", "refresh", "admin", "HS256", "JWT", "HS512",
          "1", "2", "admin@example.com", "user-123", "root@example.com",
          "3">>
Null == 250
LBrace == 123
RBrace == 125
LBracket == 91
RBracket == 93

KeyCode(k) == CHOOSE i \in 1..Len(Keys) : Keys[i] = k
S(str) == 199 + (CHOOSE i \in 1..Len(Strs) : Strs[i] = str)
IsStr(v) == v \in 200..(199 + Len(Strs))

\* dict[key] = value
DictSet(d, k, v) ==
    IF \E i \in 1..Len(d) : d[i][1] = k
    THEN [i \in 1..Len(d) |-> IF d[i][1] = k THEN <<k, v>> ELSE d[i]]
    ELSE Append(d, <<k, v>>)

\* dict.update(other)
RECURSIVE DictUpdate(_, _)
DictUpdate(d, e) ==
    IF Len(e) = 0 THEN d
    ELSE DictUpdate(DictSet(d, e[1][1], e[1][2]), Tail(e))

\* dict.get(key): None when the key is absent
DictGet(d, k) ==
    IF \E i \in 1..Len(d) : d[i][1] = k
    THEN d[CHOOSE i \in 1..Len(d) : d[i][1] = k][2]
    ELSE Null

RECURSIVE JsonItems(_)
JsonItems(d) ==
    IF Len(d) = 0 THEN <<>>
    ELSE <<KeyCode(d[1][1]), d[1][2]>> \o JsonItems(Tail(d))

\* json.dumps(dict, separators=(",", ":")).encode("utf-8")
JsonDumps(d) == <<LBrace>> \o JsonItems(d) \o <<RBrace>>

RECURSIVE JsonPairs(_, _, _)
JsonPairs(b, i, d) ==
    IF i + 1 > Len(b) - 1 THEN d
    ELSE JsonPairs(b, i + 2, DictSet(d, Keys[b[i]], b[i + 1]))

\* json.loads(bytes)
JsonLoads(b) ==
    IF b = <<LBracket, RBracket>> THEN
        [exc |-> "none", kind |-> "list", dict |-> <<>>]
    ELSE IF /\ Len(b) >= 2
            /\ b[1] = LBrace
            /\ b[Len(b)] = RBrace
            /\ Len(b) % 2 = 0
            /\ \A i \in 2..(Len(b) - 1) : i % 2 = 0 => b[i] \in 1..Len(Keys)
    THEN [exc |-> "none", kind |-> "dict", dict |-> JsonPairs(b, 2, <<>>)]
    ELSE [exc |-> "JSONDecodeError", kind |-> "none", dict |-> <<>>]

\* int(value) for a value read from a claim map
IntOf(v) ==
    IF v \in 0..199 THEN [exc |-> "none", val |-> v]
    ELSE IF v = S("1") THEN [exc |-> "none", val |-> 1]
    ELSE IF v = S("2") THEN [exc |-> "none", val |-> 2]
    ELSE IF v = S("3") THEN [exc |-> "none", val |-> 3]
    ELSE IF v = Null THEN [exc |-> "TypeError", val |-> 0]
    ELSE [exc |-> "ValueError", val |-> 0]

(***************************************************************************)
(* Time.  now counts ticks; int(datetime.timestamp()) is whole seconds.    *)
(***************************************************************************)
TicksPerSec == 2
StartNow == 5

\* int(dt.timestamp()) for an instant given in ticks
UnixSeconds(t) == t \div TicksPerSec

\* timedelta(minutes=settings.jwt_access_token_expire_minutes), in ticks
AccessTtl == 2

(***************************************************************************)
(* Token creation.                                                         *)
(***************************************************************************)
NoDelta == -1000    \* expires_delta=None

\* _build_token_payload with exp written from the issue time instead of the
\* expiry time
BuildTokenPayloadExpNow(subject, token_type, expires_delta, additional_claims, t) ==
    LET payload == << <<"sub", subject>>, <<"type", token_type>>,
                      <<"iat", UnixSeconds(t)>>, <<"exp", UnixSeconds(t)>> >>
    IN  IF Len(additional_claims) > 0
        THEN DictUpdate(payload, additional_claims)
        ELSE payload

\* _build_token_payload
BuildTokenPayload(subject, token_type, expires_delta, additional_claims, t) ==
    LET delta == IF expires_delta = NoDelta THEN AccessTtl ELSE expires_delta
        expire == t + delta
        payload == << <<"sub", subject>>, <<"type", token_type>>,
                      <<"iat", UnixSeconds(t)>>, <<"exp", UnixSeconds(expire)>> >>
    IN  IF Len(additional_claims) > 0
        THEN DictUpdate(payload, additional_claims)
        ELSE payload

Join3(a, b, c) == a \o <<Dot>> \o b \o <<Dot>> \o c

\* _jwt_encode
JwtEncode(payload, alg) ==
    LET header == << <<"alg", S(alg)>>, <<"typ", S("JWT")>> >>
        header_b64 == B64urlEncode(JsonDumps(header))
        payload_b64 == B64urlEncode(JsonDumps(payload))
        signing_input == header_b64 \o <<Dot>> \o payload_b64
        signature_b64 == B64urlEncode(Hmac(JwtSecret, signing_input))
    IN  IF alg # "HS256"
        THEN [exc |-> "TokenError", tok |-> <<>>]
        ELSE [exc |-> "none", tok |-> Join3(header_b64, payload_b64, signature_b64)]

\* create_access_token
CreateAccessToken(subject, expires_delta, additional_claims, alg, t) ==
    JwtEncode(BuildTokenPayload(subject, S("access"), expires_delta,
                                additional_claims, t), alg)

\* create_refresh_token
CreateRefreshToken(subject, expires_delta, additional_claims, alg, t) ==
    JwtEncode(BuildTokenPayload(subject, S("refresh"), expires_delta,
                                additional_claims, t), alg)

\* create_admin_token
CreateAdminToken(subject, expires_delta, additional_claims, alg, t) ==
    JwtEncode(BuildTokenPayload(subject, S("admin"), expires_delta,
                                additional_claims, t), alg)

(***************************************************************************)
(* Token decoding.  The result carries the exception raised ("none" for a  *)
(* normal return), the claim map returned, and the steps of decode_token   *)
(* that ran, in order.                                                     *)
(***************************************************************************)
\* str.split(sep): the segments of s[from..], cut at each separator
RECURSIVE SplitFrom(_, _, _)
SplitFrom(s, sep, from) ==
    LET at == { i \in from..Len(s) : s[i] = sep } IN
    IF at = {} THEN << SubSeq(s, from, Len(s)) >>
    ELSE LET first == CHOOSE i \in at : \A j \in at : i <= j
         IN  << SubSeq(s, from, first - 1) >> \o SplitFrom(s, sep, first + 1)

Split(s, sep) == SplitFrom(s, sep, 1)

Raised(exc, msg, steps) ==
    [exc |-> exc, msg |-> msg, claims |-> <<>>, steps |-> steps]
Returned(claims, steps) ==
    [exc |-> "none", msg |-> "", claims |-> claims, steps |-> steps]

\* the expiry check with > in place of >=
DecodeExpiryStrict(payload, t, steps) ==
    LET exp == DictGet(payload, "exp")
        st1 == Append(steps, "read_exp")
    IN  IF exp # Null THEN
            IF IntOf(exp).exc # "none"
            THEN Raised(IntOf(exp).exc, "", st1)
            ELSE IF UnixSeconds(t) > IntOf(exp).val
            THEN Raised("TokenError", "Token expired", st1)
            ELSE Returned(payload, Append(st1, "return"))
        ELSE Returned(payload, Append(st1, "return"))

\* decode_token, lines 131-137: the expiry check and the return
DecodeExpiry(payload, t, steps) ==
    LET exp == DictGet(payload, "exp")
        st1 == Append(steps, "read_exp")
    IN  IF exp # Null THEN
            IF IntOf(exp).exc # "none"
            THEN Raised(IntOf(exp).exc, "", st1)
            ELSE IF UnixSeconds(t) >= IntOf(exp).val
            THEN Raised("TokenError", "Token expired", st1)
            ELSE Returned(payload, Append(st1, "return"))
        ELSE Returned(payload, Append(st1, "return"))

\* decode_token, lines 122-129: parsing and the algorithm check
DecodeClaims(header_b64, payload_b64, alg, t, steps) ==
    LET hb == B64urlDecode(header_b64)
        hj == JsonLoads(hb.bytes)
        pb == B64urlDecode(payload_b64)
        pj == JsonLoads(pb.bytes)
        st1 == Append(steps, "parse_header")
        st2 == Append(st1, "parse_payload")
    IN  IF hb.exc # "none" \/ hj.exc # "none"
        THEN IF (IF hb.exc # "none" THEN hb.exc ELSE hj.exc) \in ValueErrors
             THEN Raised("TokenError", "Invalid token", st1)
             ELSE Raised(IF hb.exc # "none" THEN hb.exc ELSE hj.exc, "", st1)
        ELSE IF pb.exc # "none" \/ pj.exc # "none"
        THEN IF (IF pb.exc # "none" THEN pb.exc ELSE pj.exc) \in ValueErrors
             THEN Raised("TokenError", "Invalid token", st2)
             ELSE Raised(IF pb.exc # "none" THEN pb.exc ELSE pj.exc, "", st2)
        ELSE IF hj.kind # "dict"
        THEN Raised("AttributeError", "", Append(st2, "read_alg"))
        ELSE IF DictGet(hj.dict, "alg") # S(alg)
        THEN Raised("TokenError", "Invalid token", Append(st2, "read_alg"))
        ELSE IF pj.kind # "dict"
        THEN Raised("AttributeError", "", Append(Append(st2, "read_alg"), "read_exp"))
        ELSE DecodeExpiry(pj.dict, t, Append(st2, "read_alg"))

\* decode_token without the comparison of the two signatures
DecodeTokenNoCompare(tok, alg, t) ==
    LET segs == Split(tok, Dot)
        signing_input == segs[1] \o <<Dot>> \o segs[2]
        signature == B64urlDecode(segs[3])
    IN  IF Len(segs) # 3
        THEN Raised("TokenError", "Invalid token", <<"split">>)
        ELSE IF ~IsAscii(signing_input)
        THEN Raised("UnicodeEncodeError", "", <<"split", "signing_input">>)
        ELSE IF signature.exc # "none"
        THEN Raised(signature.exc, "",
                    <<"split", "signing_input", "hmac", "decode_signature">>)
        ELSE DecodeClaims(segs[1], segs[2], alg, t,
                          <<"split", "signing_input", "hmac", "decode_signature",
                            "compare_digest">>)

\* decode_token
DecodeToken(tok, alg, t) ==
    LET segs == Split(tok, Dot)
        signing_input == segs[1] \o <<Dot>> \o segs[2]
        expected_signature == Hmac(JwtSecret, signing_input)
        signature == B64urlDecode(segs[3])
    IN  IF Len(segs) # 3
        THEN Raised("TokenError", "Invalid token", <<"split">>)
        ELSE IF ~IsAscii(signing_input)
        THEN Raised("UnicodeEncodeError", "", <<"split", "signing_input">>)
        ELSE IF signature.exc # "none"
        THEN Raised(signature.exc, "",
                    <<"split", "signing_input", "hmac", "decode_signature">>)
        ELSE IF signature.bytes # expected_signature
        THEN Raised("TokenError", "Invalid token",
                    <<"split", "signing_input", "hmac", "decode_signature",
                      "compare_digest">>)
        ELSE DecodeClaims(segs[1], segs[2], alg, t,
                          <<"split", "signing_input", "hmac", "decode_signature",
                            "compare_digest">>)

(***************************************************************************)
(* The token scenario: one token is issued, the clock runs, and strings    *)
(* are given to decode_token: the token itself, the token with one         *)
(* character of its signature segment replaced, and hand-made strings.     *)
(***************************************************************************)
NoToken == [tok |-> <<>>, sub |-> 0, kind |-> 0, ttl |-> 0, at |-> 0, extra |-> <<>>]
Idle == Raised("idle", "", <<>>)
NoRec == [tok |-> <<>>, sub |-> 0, kind |-> 0, exp |-> 0, at |-> 0]
NoResp == [endpoint |-> "none", status |-> 0, text |-> <<>>, rec |-> NoRec,
           email |-> 0, password |-> <<>>, email_token |-> 0, detail |-> ""]
\* neither ADMIN_EMAIL nor ADMIN_PASSWORD is set
NoSettings == [admin_email |-> Null, admin_password |-> <<>>]
NoAuth ==
    /\ settings = NoSettings
    /\ users = <<>>
    /\ email_tokens = <<>>
    /\ held = {}
    /\ cookie = <<>>
    /\ resp = NoResp
NoCatalog ==
    /\ meta = <<>>
    /\ field_definitions = <<>>
    /\ schema_template_fields = <<>>
    /\ items = <<>>
    /\ inflight = {}
    /\ answer = <<>>
NoCommunity ==
    /\ collections = <<>>
    /\ schema_templates = <<>>
    /\ collection_stars = <<>>
    /\ activity_logs = <<>>
NoPw == [stored |-> <<>>, password |-> <<>>, hashed |-> FALSE, plain |-> <<>>, outcome |-> "idle"]

Subjects == {S("1"), S("user-123")}
AccessDeltas == {NoDelta, -1, 1, 3}
RefreshDeltas == {-2, 1, 2}
ExtraClaims == {<<>>, << <<"type", S("admin")>> >>}

\* the first position of the signature segment of a three-segment string
SigStart(tok) ==
    LET segs == Split(tok, Dot) IN Len(segs[1]) + Len(segs[2]) + 3

ReplaceAt(s, pos, c) == [i \in 1..Len(s) |-> IF i = pos THEN c ELSE s[i]]

\* the characters tried at a position holding the character c: the next
\* character of the alphabet, the padding character, a character outside
\* the alphabet, and '+' or '/' where c is '-' or '_'
TamperChars(c) ==
    ({Pad, Bang}
        \cup (IF c \in 0..63 THEN {(c + 1) % 64} ELSE {})
        \cup (IF c = 62 THEN {Plus} ELSE {})
        \cup (IF c = 63 THEN {Slash} ELSE {})) \ {c}

\* a token signed with the server secret over arbitrary segments
Signed(header_b64, payload_b64) ==
    Join3(header_b64, payload_b64,
          B64urlEncode(Hmac(JwtSecret, header_b64 \o <<Dot>> \o payload_b64)))

GoodHeader == B64urlEncode(JsonDumps(<< <<"alg", S("HS256")>>, <<"typ", S("JWT")>> >>))
ClaimsSeg(d) == B64urlEncode(JsonDumps(d))

HandMade ==
    { <<>>,
      <<26, Dot, 27>>,
      <<26, Dot, 27, Dot, 28>>,
      <<26, Dot, 27, Dot, 28, 29>>,
      <<26, Dot, 27, Dot, 28, Dot, 29>>,
      <<NonAscii, Dot, 27, Dot, 28, 29>>,
      <<26, Dot, 27, Dot, 28, NonAscii>>,
      Signed(<<26>>, ClaimsSeg(<< <<"sub", S("1")>> >>)),
      Signed(GoodHeader, <<26, 27>>),
      Signed(B64urlEncode(<<LBracket, RBracket>>), ClaimsSeg(<< <<"sub", S("1")>> >>)),
      Signed(GoodHeader, B64urlEncode(<<LBracket, RBracket>>)),
      Signed(ClaimsSeg(<< <<"alg", S("HS512")>>, <<"typ", S("JWT")>> >>),
             ClaimsSeg(<< <<"sub", S("1")>> >>)),
      Signed(GoodHeader, ClaimsSeg(<< <<"sub", S("1")>>, <<"type", S("access")>> >>)),
      Signed(GoodHeader, ClaimsSeg(<< <<"sub", S("1")>>, <<"exp", S("user-123")>> >>)),
      Signed(GoodHeader, ClaimsSeg(<< <<"sub", S("1")>>, <<"exp", S("2")>> >>)) }

InitToken ==
    /\ now = StartNow
    /\ jwt_algorithm \in {"HS256", "HS512"}
    /\ token = NoToken
    /\ presented = <<>>
    /\ result = Idle
    /\ pw = NoPw
    /\ NoAuth
    /\ NoCatalog
    /\ NoCommunity

Tick ==
    /\ now < MaxNow
    /\ result = Idle
    /\ resp = NoResp
    /\ now' = now + 1
    /\ UNCHANGED <<communityVars, catalogVars, jwt_algorithm, token, presented, result, pw, authVars>>

Issue(r, subject, kind, delta, extra) ==
    /\ token = NoToken
    /\ result = Idle
    /\ IF r.exc = "none"
       THEN /\ token' = [tok |-> r.tok, sub |-> subject, kind |-> kind,
                         ttl |-> delta, at |-> now, extra |-> extra]
            /\ result' = result
       ELSE /\ token' = token
            /\ result' = Raised(r.exc, "Unsupported JWT algorithm", <<"jwt_encode">>)
    /\ UNCHANGED <<communityVars, catalogVars, now, jwt_algorithm, presented, pw, authVars>>

IssueAccess ==
    \E subject \in Subjects, delta \in AccessDeltas, extra \in ExtraClaims :
        Issue(CreateAccessToken(subject, delta, extra, jwt_algorithm, now),
              subject, S("access"), IF delta = NoDelta THEN AccessTtl ELSE delta, extra)

IssueRefresh ==
    \E subject \in Subjects, delta \in RefreshDeltas, extra \in ExtraClaims :
        Issue(CreateRefreshToken(subject, delta, extra, jwt_algorithm, now),
              subject, S("refresh"), delta, extra)

Present(str) ==
    /\ result = Idle
    /\ presented' = str
    /\ result' = DecodeToken(str, jwt_algorithm, now)
    /\ UNCHANGED <<communityVars, catalogVars, now, jwt_algorithm, token, pw, authVars>>

DecodeIssued ==
    /\ token # NoToken
    /\ Present(token.tok)

DecodeTampered ==
    /\ token # NoToken
    /\ \E pos \in SigStart(token.tok)..Len(token.tok) :
         \E c \in TamperChars(token.tok[pos]) :
            Present(ReplaceAt(token.tok, pos, c))

DecodeHandMade == \E str \in HandMade : Present(str)

\* the caller is done with the outcome
Done ==
    /\ result # Idle
    /\ result' = Idle
    /\ presented' = <<>>
    /\ UNCHANGED <<communityVars, catalogVars, now, jwt_algorithm, token, pw, authVars>>

NextToken ==
    \/ Tick
    \/ IssueAccess
    \/ IssueRefresh
    \/ DecodeIssued
    \/ DecodeTampered
    \/ DecodeHandMade
    \/ Done

SpecToken == InitToken /\ [][NextToken]_vars

(***************************************************************************)
(* Password hashing.                                                       *)
(***************************************************************************)
\* _PWD_ALGORITHM = "pbkdf2_sha256"
PwdAlgorithm == <<41, 27, 36, 29, 31, 54, 63, 44, 33, 26, 54, 57, 58>>
\* _PWD_ITERATIONS, and the largest count pbkdf2_hmac takes
PwdIterations == 100000
MaxIterations == 2147483647
\* _PWD_SALT_BYTES
PwdSaltBytes == 16

IsDigit(c) == c \in 52..61

\* str(n) for n >= 0
RECURSIVE IntToStr(_)
IntToStr(n) ==
    IF n < 10 THEN <<52 + n>> ELSE Append(IntToStr(n \div 10), 52 + (n % 10))

\* a Python int: its value, or great when it exceeds MaxIterations
PyInt(v) == [val |-> v, great |-> FALSE]
TooGreat == [val |-> MaxIterations, great |-> TRUE]

\* the value of a run of digits in which single underscores may separate
\* digits; val is -1 when the text is no such run
RECURSIVE DigitsValue(_, _, _)
DigitsValue(s, i, acc) ==
    IF i > Len(s) THEN acc
    ELSE IF IsDigit(s[i]) THEN
        IF acc.great \/ acc.val > (MaxIterations - (s[i] - 52)) \div 10
        THEN DigitsValue(s, i + 1, TooGreat)
        ELSE DigitsValue(s, i + 1, PyInt(acc.val * 10 + (s[i] - 52)))
    ELSE IF s[i] = 63 /\ i > 1 /\ i < Len(s) /\ IsDigit(s[i - 1]) /\ IsDigit(s[i + 1])
    THEN DigitsValue(s, i + 1, acc)
    ELSE PyInt(-1)

\* int(text): an optional sign, then digits
ParseInt(s) ==
    LET signed == Len(s) > 0 /\ s[1] \in {62, Plus}
        digits == IF signed THEN Tail(s) ELSE s
        v == DigitsValue(digits, 1, PyInt(0))
    IN  IF Len(digits) = 0 \/ ~IsDigit(digits[1]) \/ v.val < 0
        THEN [exc |-> "ValueError", int |-> PyInt(0)]
        ELSE [exc |-> "none",
              int |-> IF signed /\ s[1] = 62 THEN PyInt(0 - v.val) ELSE v]

\* the four little-endian bytes of an iteration count
IterBytes(n) ==
    <<n % 256, (n \div 256) % 256, (n \div 65536) % 256, (n \div 16777216) % 256>>

\* _hash_password_raw: hashlib.pbkdf2_hmac("sha256", password, salt, n)
HashPasswordRaw(password, salt, iterations) ==
    IF iterations.val < 1 THEN [exc |-> "ValueError", bytes |-> <<>>]
    ELSE IF iterations.great THEN [exc |-> "OverflowError", bytes |-> <<>>]
    ELSE [exc |-> "none", bytes |-> Hmac(password, salt \o IterBytes(iterations.val))]

\* hash_password, with the salt os.urandom drew
HashPassword(password, salt) ==
    PwdAlgorithm \o <<Dollar>> \o IntToStr(PwdIterations) \o <<Dollar>>
        \o B64urlEncode(salt) \o <<Dollar>>
        \o B64urlEncode(HashPasswordRaw(password, salt, PyInt(PwdIterations)).bytes)

\* sep.join(parts[from..])
RECURSIVE JoinFrom(_, _, _)
JoinFrom(parts, from, sep) ==
    IF from > Len(parts) THEN <<>>
    ELSE IF from = Len(parts) THEN parts[from]
    ELSE parts[from] \o <<sep>> \o JoinFrom(parts, from + 1, sep)

\* str.split(sep, 3)
Split3(s, sep) ==
    LET parts == Split(s, sep) IN
    IF Len(parts) <= 4 THEN parts
    ELSE <<parts[1], parts[2], parts[3], JoinFrom(parts, 4, sep)>>

\* verify_password: "True", "False", or the class of the exception raised
VerifyPassword(plain_password, hashed_password) ==
    LET parts == Split3(hashed_password, Dollar)
        iterations == ParseInt(parts[2])
        salt == B64urlDecode(parts[3])
        expected == B64urlDecode(parts[4])
        computed == HashPasswordRaw(plain_password, salt.bytes, iterations.int)
    IN  IF Len(parts) # 4 THEN "False"
        ELSE IF parts[1] # PwdAlgorithm THEN "False"
        ELSE IF iterations.exc # "none" THEN "False"
        ELSE IF salt.exc # "none" THEN "False"
        ELSE IF expected.exc # "none" THEN "False"
        ELSE IF computed.exc # "none" THEN computed.exc
        ELSE IF computed.bytes = expected.bytes THEN "True"
        ELSE "False"

(***************************************************************************)
(* The password scenario: a string is stored, by hash_password or          *)
(* otherwise, and passwords are verified against it.                       *)
(***************************************************************************)
Passwords ==
    { <<>>, <<112, 119>>, <<112, 119, 0>>, <<112, 120>>, <<119, 112>>, <<0, 112, 119>> }

Salts ==
    { [i \in 1..PwdSaltBytes |-> (i * 37) % 256],
      [i \in 1..PwdSaltBytes |-> (i * i + 200) % 256] }

SomeHash == HashPassword(<<112, 119>>, [i \in 1..PwdSaltBytes |-> (i * 37) % 256])
SomeParts == Split(SomeHash, Dollar)

\* the stored string with its iteration-count field replaced
WithIterations(text) ==
    JoinFrom(<<SomeParts[1], text, SomeParts[3], SomeParts[4]>>, 1, Dollar)

OtherStored ==
    { <<>>,
      PwdAlgorithm,
      JoinFrom(<<SomeParts[1], SomeParts[2], SomeParts[3]>>, 1, Dollar),
      SomeHash \o <<Dollar, 26, 27>>,
      JoinFrom(<<<<38, 29, 57>>, SomeParts[2], SomeParts[3], SomeParts[4]>>, 1, Dollar),
      WithIterations(<<26, 27, 28>>),
      WithIterations(<<>>),
      WithIterations(<<53>>),
      WithIterations(<<52>>),
      WithIterations(<<62, 53>>),
      WithIterations(<<53, 63, 52>>),
      WithIterations(<<57, 57, 57, 57, 57, 57, 57, 57, 57, 57>>),
      JoinFrom(<<SomeParts[1], SomeParts[2], <<26>>, SomeParts[4]>>, 1, Dollar),
      JoinFrom(<<SomeParts[1], SomeParts[2], SomeParts[3], <<26, NonAscii>>>>, 1, Dollar),
      JoinFrom(<<SomeParts[1], SomeParts[2], SomeParts[3], <<>>>>, 1, Dollar) }

InitPwd ==
    /\ now = StartNow
    /\ jwt_algorithm = "HS256"
    /\ token = NoToken
    /\ presented = <<>>
    /\ result = Idle
    /\ pw = NoPw
    /\ NoAuth
    /\ NoCatalog
    /\ NoCommunity

\* hash_password(password)
DoHashPassword ==
    \E password \in Passwords, salt \in Salts :
        /\ pw' = [stored |-> HashPassword(password, salt), password |-> password,
                  hashed |-> TRUE, plain |-> <<>>, outcome |-> "idle"]
        /\ UNCHANGED <<communityVars, catalogVars, now, jwt_algorithm, token, presented, result, authVars>>

\* a stored string that hash_password did not make
StoreOther ==
    \E str \in OtherStored :
        /\ pw' = [stored |-> str, password |-> <<>>, hashed |-> FALSE,
                  plain |-> <<>>, outcome |-> "idle"]
        /\ UNCHANGED <<communityVars, catalogVars, now, jwt_algorithm, token, presented, result, authVars>>

\* verify_password(plain, stored)
DoVerifyPassword ==
    \E plain \in Passwords :
        /\ pw' = [pw EXCEPT !.plain = plain,
                            !.outcome = VerifyPassword(plain, pw.stored)]
        /\ UNCHANGED <<communityVars, catalogVars, now, jwt_algorithm, token, presented, result, authVars>>

NextPwd ==
    \/ DoHashPassword
    \/ StoreOther
    \/ DoVerifyPassword

SpecPwd == InitPwd /\ [][NextPwd]_vars

(***************************************************************************)
(* The call sites: accounts, login, refresh, logout, password reset, the   *)
(* bearer-authenticated endpoints and the admin endpoints.                 *)
(***************************************************************************)
\* timedelta(days=REFRESH_TOKEN_EXPIRE_DAYS), admin_token_expire_minutes,
\* VERIFY_TOKEN_EXPIRE_HOURS and RESET_TOKEN_EXPIRE_HOURS, in ticks
RefreshTtl == 4
AdminTtl == 4
VerifyTtl == 4
ResetTtl == 1

UserIds == 1..MaxUsers
Emails == 1..MaxUsers
EmailTokenIds == 1..MaxEmailTokens
AuthPasswords == { <<112, 119>>, <<112, 120>> }
AdminPassword == <<97, 100>>
AdminEmails == { S("admin@example.com"), S("root@example.com") }

AdminConfigs ==
    { NoSettings }
    \cup { [admin_email |-> e, admin_password |-> AdminPassword] : e \in AdminEmails }

NoUser == [email |-> 0, password_hash |-> <<>>, is_active |-> FALSE,
           is_verified |-> FALSE]
NoTime == -1
NoEmailToken == [user_id |-> 0, token_type |-> "none", expires_at |-> 0,
                 used_at |-> NoTime]
\* a row removed with its user
GoneEmailToken == [user_id |-> 0, token_type |-> "gone", expires_at |-> 0,
                   used_at |-> NoTime]

\* db.get(User, user_id)
DbGet(user_id) ==
    IF user_id \in DOMAIN users THEN users[user_id] ELSE NoUser

\* select(User).where(User.email == email): the id, 0 when there is none
UserByEmail(email) ==
    IF \E id \in UserIds : users[id] # NoUser /\ users[id].email = email
    THEN CHOOSE id \in UserIds : users[id] # NoUser /\ users[id].email = email
    ELSE 0

\* select(EmailToken).where(token == t, token_type == type): 0 when none
EmailTokenBy(t, type) ==
    IF t \in EmailTokenIds /\ email_tokens[t].token_type = type THEN t ELSE 0

\* the id the database gives the next users row
NewUserId ==
    IF \E id \in UserIds : users[id] # NoUser
    THEN 1 + CHOOSE id \in UserIds :
                 users[id] # NoUser /\ \A j \in UserIds : users[j] # NoUser => j <= id
    ELSE 1

\* the next email_tokens row, 0 when the table is full
NewEmailTokenId ==
    IF \E t \in EmailTokenIds : email_tokens[t] = NoEmailToken
    THEN CHOOSE t \in EmailTokenIds :
             /\ email_tokens[t] = NoEmailToken
             /\ \A j \in EmailTokenIds : email_tokens[j] = NoEmailToken => t <= j
    ELSE 0

\* str(user.id)
StrOfId(id) == S(<<"1", "2", "3">>[id])

Bearer == <<1, 30, 26, 43, 30, 43>>
BearerLower == <<27, 30, 26, 43, 30, 43>>
Basic == <<1, 26, 44, 34, 28>>

\* str.lower()
Lower(s) == [i \in 1..Len(s) |-> IF s[i] \in 0..25 THEN s[i] + 26 ELSE s[i]]

\* str.partition(sep)
Partition(s, sep) ==
    IF \E i \in 1..Len(s) : s[i] = sep
    THEN LET i == CHOOSE k \in 1..Len(s) :
                      s[k] = sep /\ \A j \in 1..(k - 1) : s[j] # sep
         IN  <<SubSeq(s, 1, i - 1), <<sep>>, SubSeq(s, i + 1, Len(s))>>
    ELSE <<s, <<>>, <<>>>>

RECURSIVE LStrip(_, _)
LStrip(s, c) ==
    IF Len(s) > 0 /\ s[1] = c THEN LStrip(Tail(s), c) ELSE s

\* str.strip()
Strip(s) == LStrip(RStrip(s, Space), Space)

Answer(status, subject) == [status |-> status, subject |-> subject]

\* the standing of a users row, when only a locked account is refused
StandingOfActive(user) ==
    IF ~user.is_active THEN 403 ELSE 200

\* the standing of a users row, when only an unverified account is refused
StandingOfVerified(user) ==
    IF ~user.is_verified THEN 403 ELSE 200

\* the standing of a users row: 403 for a locked or unverified account
Standing(user) ==
    IF ~user.is_active THEN 403
    ELSE IF ~user.is_verified THEN 403
    ELSE 200

\* the scheme of an Authorization header is bearer, in any case
IsBearer(authorization) ==
    Lower(Partition(authorization, Space)[1]) = BearerLower

\* the token of an Authorization header: what follows the first space
HeaderToken(authorization) == Strip(Partition(authorization, Space)[3])

\* get_current_user, lines 35-77: from what decode_token did to the user
CurrentUserOf(decoded) ==
    LET user_id == IntOf(DictGet(decoded.claims, "sub"))
        user == DbGet(user_id.val)
    IN  IF decoded.exc = "TokenError" THEN Answer(401, 0)
        ELSE IF decoded.exc # "none" THEN Answer(500, 0)
        ELSE IF DictGet(decoded.claims, "type") # S("access") THEN Answer(401, 0)
        ELSE IF user_id.exc # "none" THEN Answer(401, 0)
        ELSE IF user = NoUser THEN Answer(401, 0)
        ELSE Answer(Standing(user), user_id.val)

\* get_current_user
GetCurrentUser(authorization) ==
    IF Len(authorization) = 0 THEN Answer(401, 0)
    ELSE IF ~IsBearer(authorization) THEN Answer(401, 0)
    ELSE IF Len(HeaderToken(authorization)) = 0 THEN Answer(401, 0)
    ELSE CurrentUserOf(DecodeToken(HeaderToken(authorization), jwt_algorithm, now))

\* refresh_access_token, lines 200-231: from what decode_token did to the
\* user
RefreshSubjectOf(decoded) ==
    LET user_id == IntOf(DictGet(decoded.claims, "sub"))
        user == DbGet(user_id.val)
    IN  IF decoded.exc = "TokenError" THEN Answer(401, 0)
        ELSE IF decoded.exc # "none" THEN Answer(500, 0)
        ELSE IF DictGet(decoded.claims, "type") # S("refresh") THEN Answer(401, 0)
        ELSE IF user_id.exc # "none" THEN Answer(401, 0)
        ELSE IF user = NoUser \/ ~user.is_active THEN Answer(401, 0)
        ELSE IF ~user.is_verified THEN Answer(403, 0)
        ELSE Answer(200, user_id.val)

\* refresh_access_token, lines 194-231, refusing a token that is not the
\* one in the browser's cookie
RefreshSubjectCookieOnly(refresh_token) ==
    IF Len(refresh_token) = 0 THEN Answer(401, 0)
    ELSE IF refresh_token # cookie THEN Answer(401, 0)
    ELSE RefreshSubjectOf(DecodeToken(refresh_token, jwt_algorithm, now))

\* refresh_access_token, lines 194-231: who the cookie's token stands for
RefreshSubject(refresh_token) ==
    IF Len(refresh_token) = 0 THEN Answer(401, 0)
    ELSE RefreshSubjectOf(DecodeToken(refresh_token, jwt_algorithm, now))

\* _require_admin_config: 503 when admin login is not configured
RequireAdminConfig ==
    IF settings.admin_email = Null \/ Len(settings.admin_password) = 0
    THEN 503 ELSE 200

\* _verify_admin_credentials
VerifyAdminCredentials(email, password) ==
    /\ settings.admin_email # Null
    /\ Len(settings.admin_password) > 0
    /\ email = settings.admin_email
    /\ password = settings.admin_password

\* get_admin_subject, lines 136-163, without the comparison of the subject
AdminSubjectOfAnySubject(decoded) ==
    LET subject == DictGet(decoded.claims, "sub") IN
    IF decoded.exc = "TokenError" THEN Answer(401, 0)
    ELSE IF decoded.exc # "none" THEN Answer(500, 0)
    ELSE IF DictGet(decoded.claims, "type") # S("admin") THEN Answer(401, 0)
    ELSE IF ~IsStr(subject) \/ settings.admin_email = Null THEN Answer(401, 0)
    ELSE Answer(200, subject)

\* get_admin_subject, lines 136-163: from what decode_token did to the
\* subject
AdminSubjectOf(decoded) ==
    LET subject == DictGet(decoded.claims, "sub") IN
    IF decoded.exc = "TokenError" THEN Answer(401, 0)
    ELSE IF decoded.exc # "none" THEN Answer(500, 0)
    ELSE IF DictGet(decoded.claims, "type") # S("admin") THEN Answer(401, 0)
    ELSE IF ~IsStr(subject) \/ settings.admin_email = Null THEN Answer(401, 0)
    ELSE IF subject # settings.admin_email THEN Answer(401, 0)
    ELSE Answer(200, subject)

\* get_admin_subject
GetAdminSubject(authorization) ==
    IF RequireAdminConfig # 200 THEN Answer(RequireAdminConfig, 0)
    ELSE IF Len(authorization) = 0 THEN Answer(401, 0)
    ELSE IF ~IsBearer(authorization) THEN Answer(401, 0)
    ELSE IF Len(HeaderToken(authorization)) = 0 THEN Answer(401, 0)
    ELSE AdminSubjectOf(DecodeToken(HeaderToken(authorization), jwt_algorithm, now))

(***************************************************************************)
(* Requests.  A client presents a token it holds, or something else.       *)
(***************************************************************************)
TokenRec(tok, kind, sub, ttl) ==
    [tok |-> tok, sub |-> sub, kind |-> kind, exp |-> UnixSeconds(now + ttl),
     at |-> now]

\* the held record of a token, NoRec for a string no client was given
RecOf(tok) ==
    IF \E h \in held : h.tok = tok THEN CHOOSE h \in held : h.tok = tok ELSE NoRec

\* clients keep the tokens they are given while they have room
Keep(recs) ==
    IF Cardinality(held \cup recs) <= MaxHeld THEN held \cup recs ELSE held

BearerOf(tok) == Bearer \o <<Space>> \o tok

\* strings that are no signed token
Garbled == { <<26, Dot, 27, Dot, 28>>, <<26, 27, 28>> }

\* Authorization headers that carry no bearer token
NoBearer == { <<>>, Bearer, Basic \o <<Space, 26, 27>> }

HeldHeaders == { BearerOf(h.tok) : h \in held }
HeldHeadersOf(kind) == { BearerOf(h.tok) : h \in { x \in held : x.kind = kind } }
OtherHeaders == NoBearer \cup { BearerOf(g) : g \in Garbled }

Respond(endpoint, status, text, email, password) ==
    resp' = [endpoint |-> endpoint, status |-> status, text |-> text,
             rec |-> IF endpoint = "refresh" THEN RecOf(text)
                     ELSE RecOf(HeaderToken(text)),
             email |-> email, password |-> password, email_token |-> 0,
             detail |-> ""]

\* the response to a request that carries an email token: text is the
\* message or the detail of the response
RespondToken(endpoint, status, token_id, password, text) ==
    resp' = [endpoint |-> endpoint, status |-> status, text |-> <<>>,
             rec |-> NoRec, email |-> 0, password |-> password,
             email_token |-> token_id, detail |-> text]

InitAuth ==
    /\ now = StartNow
    /\ jwt_algorithm = "HS256"
    /\ token = NoToken
    /\ presented = <<>>
    /\ result = Idle
    /\ pw = NoPw
    /\ settings \in AdminConfigs
    /\ users = [id \in UserIds |-> NoUser]
    /\ email_tokens = [t \in EmailTokenIds |-> NoEmailToken]
    /\ held = {}
    /\ cookie = <<>>
    /\ resp = NoResp
    /\ NoCatalog
    /\ NoCommunity

\* the process is started again with another environment
Restart ==
    /\ resp = NoResp
    /\ \E cfg \in AdminConfigs : settings' = cfg
    /\ UNCHANGED <<communityVars, catalogVars, now, jwt_algorithm, token, presented, result, pw,
                   users, email_tokens, held, cookie, resp>>

\* POST /auth/register
Register ==
    \E email \in Emails, salt \in {CHOOSE x \in Salts : TRUE} :
        LET password == <<112, 119>>
            existing == UserByEmail(email)
            id == NewUserId
            t == NewEmailTokenId
        IN  /\ resp = NoResp
            /\ IF existing # 0
               THEN /\ Respond("register", 409, <<>>, email, password)
                    /\ UNCHANGED <<users, email_tokens>>
               ELSE /\ id \in UserIds
                    /\ t # 0
                    /\ users' = [users EXCEPT ![id] =
                           [email |-> email,
                            password_hash |-> HashPassword(password, salt),
                            is_active |-> TRUE, is_verified |-> FALSE]]
                    /\ email_tokens' = [email_tokens EXCEPT ![t] =
                           [user_id |-> id, token_type |-> "verify",
                            expires_at |-> now + VerifyTtl, used_at |-> NoTime]]
                    /\ Respond("register", 201, <<>>, email, password)
            /\ UNCHANGED <<communityVars, catalogVars, now, jwt_algorithm, token, presented, result, pw,
                           settings, held, cookie>>

\* POST /auth/verify
VerifyEmail ==
    \E token_id \in 0..MaxEmailTokens :
        LET t == EmailTokenBy(token_id, "verify")
            email_token == email_tokens[t]
            user == users[email_token.user_id]
        IN  /\ resp = NoResp
            /\ IF t = 0
               THEN /\ RespondToken("verify", 400, token_id, <<>>,
                                    "Invalid verification token")
                    /\ UNCHANGED <<users, email_tokens>>
               ELSE IF email_token.used_at # NoTime
               THEN /\ IF user.is_verified
                       THEN RespondToken("verify", 200, token_id, <<>>,
                                         "Email already verified")
                       ELSE RespondToken("verify", 400, token_id, <<>>,
                                         "Verification token already used")
                    /\ UNCHANGED <<users, email_tokens>>
               ELSE IF email_token.expires_at <= now
               THEN /\ RespondToken("verify", 400, token_id, <<>>,
                                    "Verification token expired")
                    /\ UNCHANGED <<users, email_tokens>>
               ELSE /\ users' = [users EXCEPT ![email_token.user_id].is_verified = TRUE]
                    /\ email_tokens' = [email_tokens EXCEPT ![t].used_at = now]
                    /\ RespondToken("verify", 200, token_id, <<>>, "Email verified")
            /\ UNCHANGED <<communityVars, catalogVars, now, jwt_algorithm, token, presented, result, pw,
                           settings, held, cookie>>

\* login and refresh_access_token, the last lines: the token pair is made,
\* the refresh token set as the cookie, and the access token returned
GrantTokens(endpoint, checked, user_id, text, email, password, access, refresh) ==
    /\ resp = NoResp
    /\ IF checked # 200
       THEN /\ Respond(endpoint, checked, text, email, password)
            /\ UNCHANGED <<held, cookie>>
       ELSE IF access.exc # "none" \/ refresh.exc # "none"
       THEN /\ Respond(endpoint, 500, text, email, password)
            /\ UNCHANGED <<held, cookie>>
       ELSE /\ Respond(endpoint, 200, text, email, password)
            /\ held' = Keep({ TokenRec(access.tok, S("access"), user_id, AccessTtl),
                              TokenRec(refresh.tok, S("refresh"), user_id, RefreshTtl) })
            /\ cookie' = refresh.tok
    /\ UNCHANGED <<communityVars, catalogVars, now, jwt_algorithm, token, presented, result, pw,
                   settings, users, email_tokens>>

\* login, lines 161-172: 200 when the credentials pass
LoginStatus(user, verified) ==
    IF user = NoUser THEN 401
    ELSE IF verified = "False" THEN 401
    ELSE IF verified # "True" THEN 500
    ELSE Standing(user)

\* POST /auth/login
Login ==
    \E email \in Emails, password \in AuthPasswords :
        GrantTokens("login",
                    LoginStatus(DbGet(UserByEmail(email)),
                                VerifyPassword(password,
                                               DbGet(UserByEmail(email)).password_hash)),
                    UserByEmail(email), <<>>, email, password,
                    CreateAccessToken(StrOfId(UserByEmail(email)), NoDelta, <<>>,
                                      jwt_algorithm, now),
                    CreateRefreshToken(StrOfId(UserByEmail(email)), RefreshTtl, <<>>,
                                       jwt_algorithm, now))

\* refresh_access_token, lines 233-244, for the user the token stands for
Refreshed(refresh_token, who) ==
    GrantTokens("refresh", who.status, who.subject, refresh_token, 0, <<>>,
                CreateAccessToken(StrOfId(who.subject), NoDelta, <<>>,
                                  jwt_algorithm, now),
                CreateRefreshToken(StrOfId(who.subject), RefreshTtl, <<>>,
                                   jwt_algorithm, now))

\* POST /auth/refresh, with the cookie the browser has or a token replayed
RefreshAccessToken ==
    \E refresh_token \in {cookie} \cup { h.tok : h \in held } \cup Garbled :
        Refreshed(refresh_token, RefreshSubject(refresh_token))

\* POST /auth/logout
Logout ==
    /\ resp = NoResp
    /\ cookie' = <<>>
    /\ Respond("logout", 200, <<>>, 0, <<>>)
    /\ UNCHANGED <<communityVars, catalogVars, now, jwt_algorithm, token, presented, result, pw,
                   settings, users, email_tokens, held>>

\* POST /auth/forgot
ForgotPassword ==
    \E email \in Emails :
        LET user_id == UserByEmail(email)
            user == DbGet(user_id)
            t == NewEmailTokenId
        IN  /\ resp = NoResp
            /\ IF user = NoUser \/ ~user.is_active
               THEN UNCHANGED email_tokens
               ELSE /\ t # 0
                    /\ email_tokens' = [email_tokens EXCEPT ![t] =
                           [user_id |-> user_id, token_type |-> "reset",
                            expires_at |-> now + ResetTtl, used_at |-> NoTime]]
            /\ Respond("forgot", 200, <<>>, email, <<>>)
            /\ UNCHANGED <<communityVars, catalogVars, now, jwt_algorithm, token, presented, result, pw,
                           settings, users, held, cookie>>

\* POST /auth/reset
ResetPassword ==
    \E token_id \in 0..MaxEmailTokens, salt \in {CHOOSE x \in Salts : TRUE} :
        LET password == <<112, 120>>
            t == EmailTokenBy(token_id, "reset")
            email_token == email_tokens[t]
            user == DbGet(email_token.user_id)
        IN  /\ resp = NoResp
            /\ IF t = 0
               THEN /\ RespondToken("reset", 400, token_id, password,
                                    "Invalid reset token")
                    /\ UNCHANGED <<users, email_tokens>>
               ELSE IF user = NoUser \/ ~user.is_active
               THEN /\ RespondToken("reset", 400, token_id, password,
                                    "Invalid reset token")
                    /\ UNCHANGED <<users, email_tokens>>
               ELSE IF email_token.used_at # NoTime
               THEN /\ RespondToken("reset", 400, token_id, password,
                                    "Reset token already used")
                    /\ UNCHANGED <<users, email_tokens>>
               ELSE IF email_token.expires_at <= now
               THEN /\ RespondToken("reset", 400, token_id, password,
                                    "Reset token expired")
                    /\ UNCHANGED <<users, email_tokens>>
               ELSE /\ users' = [users EXCEPT ![email_token.user_id].password_hash =
                                     HashPassword(password, salt)]
                    /\ email_tokens' = [email_tokens EXCEPT ![t].used_at = now]
                    /\ RespondToken("reset", 200, token_id, password,
                                    "Password reset successful")
            /\ UNCHANGED <<communityVars, catalogVars, now, jwt_algorithm, token, presented, result, pw,
                           settings, held, cookie>>

\* GET /auth/me
ReadMe ==
    \E authorization \in HeldHeaders \cup OtherHeaders :
        /\ resp = NoResp
        /\ Respond("me", GetCurrentUser(authorization).status, authorization, 0, <<>>)
        /\ UNCHANGED <<communityVars, catalogVars, now, jwt_algorithm, token, presented, result, pw,
                       settings, users, email_tokens, held, cookie>>

\* delete_me, for the user get_current_user found
Deleted(authorization, who) ==
    /\ resp = NoResp
    /\ Respond("delete_me", who.status, authorization, 0, <<>>)
    /\ IF who.status = 200
       THEN /\ users' = [users EXCEPT ![who.subject] = NoUser]
            /\ email_tokens' = [t \in EmailTokenIds |->
                   IF email_tokens[t].user_id = who.subject
                   THEN GoneEmailToken ELSE email_tokens[t]]
            /\ cookie' = <<>>
       ELSE UNCHANGED <<users, email_tokens, cookie>>
    /\ UNCHANGED <<communityVars, catalogVars, now, jwt_algorithm, token, presented, result, pw,
                   settings, held>>

\* DELETE /auth/me
DeleteMe ==
    \E authorization \in HeldHeadersOf(S("access")) \cup {<<>>} :
        Deleted(authorization, GetCurrentUser(authorization))

\* admin_login, lines 168-181
AdminLoggedIn(email, password, made) ==
    /\ resp = NoResp
    /\ IF RequireAdminConfig # 200
       THEN /\ Respond("admin_login", RequireAdminConfig, <<>>, email, password)
            /\ held' = held
       ELSE IF ~VerifyAdminCredentials(email, password)
       THEN /\ Respond("admin_login", 401, <<>>, email, password)
            /\ held' = held
       ELSE IF made.exc # "none"
       THEN /\ Respond("admin_login", 500, <<>>, email, password)
            /\ held' = held
       ELSE /\ Respond("admin_login", 200, <<>>, email, password)
            /\ held' = Keep({ TokenRec(made.tok, S("admin"),
                                       settings.admin_email, AdminTtl) })
    /\ UNCHANGED <<communityVars, catalogVars, now, jwt_algorithm, token, presented, result, pw,
                   settings, users, email_tokens, cookie>>

\* POST /admin/login
AdminLogin ==
    \E email \in AdminEmails, password \in {AdminPassword, <<97>>} :
        AdminLoggedIn(email, password,
                      CreateAdminToken(settings.admin_email, AdminTtl, <<>>,
                                       jwt_algorithm, now))

\* GET /admin/stats
GetAdminStats ==
    \E authorization \in HeldHeaders \cup OtherHeaders :
        /\ resp = NoResp
        /\ Respond("admin_stats", GetAdminSubject(authorization).status,
                   authorization, 0, <<>>)
        /\ UNCHANGED <<communityVars, catalogVars, now, jwt_algorithm, token, presented, result, pw,
                       settings, users, email_tokens, held, cookie>>

\* set_admin_user_lock, for the admin get_admin_subject found
LockSet(authorization, user_id, locked, who) ==
    /\ resp = NoResp
    /\ IF who.status # 200
       THEN /\ Respond("admin_lock", who.status, authorization, 0, <<>>)
            /\ users' = users
       ELSE IF DbGet(user_id) = NoUser
       THEN /\ Respond("admin_lock", 404, authorization, 0, <<>>)
            /\ users' = users
       ELSE /\ Respond("admin_lock", 200, authorization, 0, <<>>)
            /\ users' = [users EXCEPT ![user_id].is_active = ~locked]
    /\ UNCHANGED <<communityVars, catalogVars, now, jwt_algorithm, token, presented, result, pw,
                   settings, email_tokens, held, cookie>>

\* PATCH /admin/users/{user_id}/lock
SetAdminUserLock ==
    \E authorization \in HeldHeadersOf(S("admin")) \cup {<<>>},
       user_id \in UserIds, locked \in BOOLEAN :
        LockSet(authorization, user_id, locked, GetAdminSubject(authorization))

\* the client has read the response
Received ==
    /\ resp # NoResp
    /\ resp' = NoResp
    /\ UNCHANGED <<communityVars, catalogVars, now, jwt_algorithm, token, presented, result, pw,
                   settings, users, email_tokens, held, cookie>>

NextAuth ==
    \/ Tick
    \/ Restart
    \/ Register
    \/ VerifyEmail
    \/ Login
    \/ RefreshAccessToken
    \/ Logout
    \/ ForgotPassword
    \/ ResetPassword
    \/ ReadMe
    \/ DeleteMe
    \/ AdminLogin
    \/ GetAdminStats
    \/ SetAdminUserLock
    \/ Received

SpecAuth == InitAuth /\ [][NextAuth]_vars

(***************************************************************************)
(* Item metadata: field definitions, validate_metadata, and the filter and *)
(* sort tokens of the item listing.  Strings are sequences of character    *)
(* codes as above; the space is the only whitespace character.             *)
(***************************************************************************)
Colon == 72
Comma == 73
Hyphen == 62
UpperT == 19
UpperW == 22
UpperZ == 25
LowerE == 30
UpperE == 4
\* the word metadata
MetadataWord == <<38, 30, 45, 26, 29, 26, 45, 26>>

\* s[i], or -1 where Python's slice s[i:i+1] is empty
At(s, i) == IF i \in 1..Len(s) THEN s[i] ELSE -1

\* s[a-1:b], Python's slice, by positions counted from 1
Slice(s, a, b) ==
    IF a > Len(s) \/ b < a THEN <<>>
    ELSE SubSeq(s, a, IF b > Len(s) THEN Len(s) ELSE b)

\* sep.join(parts)
RECURSIVE JoinStr(_, _)
JoinStr(parts, sep) ==
    IF Len(parts) = 0 THEN <<>>
    ELSE IF Len(parts) = 1 THEN parts[1]
    ELSE parts[1] \o sep \o JoinStr(Tail(parts), sep)

\* the number a run of ASCII digits writes, -1 when s is empty or holds
\* another character: the parsers of fromisoformat read digits only
RECURSIVE NumFrom(_, _, _)
NumFrom(s, i, acc) ==
    IF i > Len(s) THEN acc
    ELSE IF ~IsDigit(s[i]) THEN -1
    ELSE NumFrom(s, i + 1, acc * 10 + (s[i] - 52))

Num(s) == IF Len(s) = 0 THEN -1 ELSE NumFrom(s, 1, 0)

IsLeap(year) == year % 4 = 0 /\ (year % 100 # 0 \/ year % 400 = 0)

DaysInMonth(year, month) ==
    IF month = 2 THEN (IF IsLeap(year) THEN 29 ELSE 28)
    ELSE IF month \in {4, 6, 9, 11} THEN 30
    ELSE 31

\* the days before January 1st of the year
DaysBeforeYear(year) ==
    LET y == year - 1 IN y * 365 + (y \div 4) - (y \div 100) + (y \div 400)

\* date(year, month, day) is a date
ValidDate(year, month, day) ==
    /\ year \in 1..9999
    /\ month \in 1..12
    /\ day \in 1..DaysInMonth(year, month)

\* the ISO week date (year, week, day) is a date: week 53 exists only in a
\* year that starts on a Thursday, or on a Wednesday when it is a leap year
ValidIsoWeek(year, week, day) ==
    LET first_weekday == (DaysBeforeYear(year) + 1) % 7 IN
    /\ year \in 1..9999
    /\ week \in 1..53
    /\ week = 53 => (first_weekday = 4 \/ (first_weekday = 3 /\ IsLeap(year)))
    /\ day \in 1..7
    /\ ~(year = 9999 /\ week = 52 /\ day > 5)

\* the date part of an ISO string parses: YYYY-MM-DD, YYYYMMDD, YYYY-Www,
\* YYYYWww, YYYY-Www-D or YYYYWwwD
ParseIsoformatDate(dtstr) ==
    LET year == Num(Slice(dtstr, 1, 4))
        has_sep == At(dtstr, 5) = Hyphen
        pos == IF has_sep THEN 6 ELSE 5
        weekly == At(dtstr, pos) = UpperW
        weekno == Num(Slice(dtstr, pos + 1, pos + 2))
        after_week == pos + 3
        day_at == IF has_sep THEN after_week + 1 ELSE after_week
        dayno == IF Len(dtstr) >= after_week THEN Num(Slice(dtstr, day_at, day_at)) ELSE 1
        month == Num(Slice(dtstr, pos, pos + 1))
        after_month == pos + 2
        dd_at == IF has_sep THEN after_month + 1 ELSE after_month
        day == Num(Slice(dtstr, dd_at, dd_at + 1))
    IN  IF Len(dtstr) \notin {7, 8, 10} \/ year < 0 THEN FALSE
        ELSE IF weekly
        THEN /\ weekno >= 0
             /\ Len(dtstr) >= after_week => ((At(dtstr, after_week) = Hyphen) = has_sep)
             /\ dayno >= 0
             /\ ValidIsoWeek(year, weekno, dayno)
        ELSE /\ month >= 0
             /\ (At(dtstr, after_month) = Hyphen) = has_sep
             /\ day >= 0
             /\ ValidDate(year, month, day)

\* date.fromisoformat(text) returns, rather than raising ValueError
DateFromIsoformat(text) == ParseIsoformatDate(text)

\* how many digits stand in s from position i on
RECURSIVE DigitRun(_, _)
DigitRun(s, i) ==
    IF i <= Len(s) /\ IsDigit(s[i]) THEN 1 + DigitRun(s, i + 1) ELSE 0

\* the length of the date part of a date-and-time string
FindIsoformatDatetimeSeparator(dtstr) ==
    LET idx == 7 + DigitRun(dtstr, 8) IN
    IF Len(dtstr) = 7 THEN 7
    ELSE IF dtstr[5] = Hyphen
    THEN IF dtstr[6] = UpperW
         THEN IF Len(dtstr) > 8 /\ dtstr[9] = Hyphen
              THEN IF Len(dtstr) = 9 THEN -1
                   ELSE IF Len(dtstr) > 10 /\ IsDigit(dtstr[11]) THEN 8
                   ELSE 10
              ELSE 8
         ELSE 10
    ELSE IF dtstr[5] = UpperW
    THEN IF idx < 9 THEN idx
         ELSE IF idx % 2 = 0 THEN 7
         ELSE 8
    ELSE 8

\* what the time parser reports: ok, with whether it stopped before the end
\* of the text it was given
BadTime == [ok |-> FALSE, ended |-> FALSE, hh |-> 0, mm |-> 0, ss |-> 0]
GoodTime(vals, ended) ==
    [ok |-> TRUE, ended |-> ended, hh |-> vals[1], mm |-> vals[2], ss |-> vals[3]]

\* the fraction of a second from position at: digits to the end
ParseFraction(tstr, more, at, vals) ==
    LET to_parse == IF Len(tstr) + 1 - at >= 6 THEN 6 ELSE Len(tstr) + 1 - at
        stop == at + to_parse + DigitRun(tstr, at + to_parse)
    IN  IF \E k \in at..(at + to_parse - 1) : ~IsDigit(tstr[k]) THEN BadTime
        ELSE GoodTime(vals, stop > Len(tstr) /\ ~more)

\* HH[:MM[:SS[.fff]]] or HH[MM[SS[.fff]]], component i from position pos;
\* more tells that the text goes on after tstr, with an offset
RECURSIVE ParseHhMmSsFf(_, _, _, _, _, _)
ParseHhMmSsFf(tstr, more, i, pos, has_separator, vals) ==
    LET v == Num(Slice(tstr, pos, pos + 1))
        c == At(tstr, pos + 2)
        sep == IF i = 1 THEN c = Colon ELSE has_separator
        read == [vals EXCEPT ![i] = v]
    IN  IF pos + 1 > Len(tstr) \/ v < 0 THEN BadTime
        ELSE IF pos + 2 >= Len(tstr)
        THEN GoodTime(read, pos + 2 > Len(tstr) /\ ~more)
        ELSE IF sep /\ c = Colon
        THEN IF i = 3 THEN ParseFraction(tstr, more, pos + 3, read)
             ELSE ParseHhMmSsFf(tstr, more, i + 1, pos + 3, sep, read)
        ELSE IF c \in {Dot, Comma} THEN ParseFraction(tstr, more, pos + 3, read)
        ELSE IF ~sep
        THEN IF i = 3 THEN ParseFraction(tstr, more, pos + 2, read)
             ELSE ParseHhMmSsFf(tstr, more, i + 1, pos + 2, sep, read)
        ELSE BadTime

\* the time part of an ISO string parses, with its UTC offset when it has one
ParseIsoformatTime(tstr) ==
    LET marks == { i \in 1..Len(tstr) : tstr[i] \in {UpperZ, Plus, Hyphen} }
        tz_pos == IF marks = {} THEN 0
                  ELSE CHOOSE i \in marks : \A j \in marks : i <= j
        timestr == IF tz_pos > 0 THEN Slice(tstr, 1, tz_pos - 1) ELSE tstr
        time_comps == ParseHhMmSsFf(timestr, tz_pos > 0, 1, 1, FALSE, <<0, 0, 0>>)
        tzstr == Slice(tstr, tz_pos + 1, Len(tstr))
        tz_comps == ParseHhMmSsFf(tzstr, FALSE, 1, 1, FALSE, <<0, 0, 0>>)
    IN  /\ time_comps.ok
        /\ time_comps.hh \in 0..23
        /\ time_comps.mm \in 0..59
        /\ time_comps.ss \in 0..59
        /\ IF tz_pos = 0 THEN time_comps.ended
           ELSE IF tstr[tz_pos] = UpperZ THEN tz_pos = Len(tstr)
           ELSE /\ tz_comps.ok
                /\ tz_comps.ended
                /\ tz_comps.hh * 3600 + tz_comps.mm * 60 + tz_comps.ss < 86400

\* datetime.fromisoformat(text) returns, rather than raising ValueError
DatetimeFromIsoformat(text) ==
    LET separator_location == FindIsoformatDatetimeSeparator(text)
        dstr == Slice(text, 1, separator_location)
        tstr == Slice(text, separator_location + 2, Len(text))
    IN  /\ Len(text) >= 7
        /\ separator_location > 0
        /\ ParseIsoformatDate(dstr)
        /\ Len(text) > separator_location => ParseIsoformatTime(tstr)

\* JSON values of a metadata document, all of one shape: t is the Python
\* type, s the text of a str, n the number of an int or float (a float in
\* hundredths), b the truth of a bool
VNone == [t |-> "none", s |-> <<>>, n |-> 0, b |-> FALSE]
VStr(s) == [t |-> "str", s |-> s, n |-> 0, b |-> FALSE]
VInt(n) == [t |-> "int", s |-> <<>>, n |-> n, b |-> FALSE]
VFloat(n) == [t |-> "float", s |-> <<>>, n |-> n, b |-> FALSE]
VBool(b) == [t |-> "bool", s |-> <<>>, n |-> 0, b |-> b]
VList == [t |-> "list", s |-> <<>>, n |-> 0, b |-> FALSE]

\* FieldDefinition.options: None, or {"options": [...]}
NoOptions == [present |-> FALSE, options |-> <<>>]
Options(list) == [present |-> TRUE, options |-> list]

\* a row of field_definitions (or of schema_template_fields)
FieldDefinition(name, field_type, is_required, options) ==
    [name |-> name, field_type |-> field_type, is_required |-> is_required,
     is_private |-> FALSE, options |-> options]

\* key in dict
HasKey(d, k) == \E i \in 1..Len(d) : d[i][1] = k

\* dict[key], for a key the dict has
ValueOf(d, k) == d[CHOOSE i \in 1..Len(d) : d[i][1] = k][2]

\* {field.name: field for field in field_definitions}
RECURSIVE FieldByName(_)
FieldByName(definitions) ==
    IF Len(definitions) = 0 THEN <<>>
    ELSE DictSet(FieldByName(SubSeq(definitions, 1, Len(definitions) - 1)),
                 definitions[Len(definitions)].name,
                 definitions[Len(definitions)])

\* a metadata argument: None, a mapping, or something else
NoMetadata == [kind |-> "none", pairs |-> <<>>]
Mapping(pairs) == [kind |-> "map", pairs |-> pairs]
NotMapping == [kind |-> "other", pairs |-> <<>>]

FieldError(field, message, listed) ==
    [field |-> field, message |-> message, listed |-> listed]

\* validate_metadata, lines 36-38: an error for each key that is no field
RECURSIVE UnknownFields(_, _)
UnknownFields(metadata_values, field_by_name) ==
    IF Len(metadata_values) = 0 THEN <<>>
    ELSE (IF HasKey(field_by_name, metadata_values[1][1]) THEN <<>>
          ELSE << FieldError(metadata_values[1][1], "Unknown field", <<>>) >>)
         \o UnknownFields(Tail(metadata_values), field_by_name)

Rejected(acc, field, message, listed) ==
    [acc EXCEPT !.errors = Append(@, FieldError(field.name, message, listed))]
Normalized(acc, field, value) ==
    [acc EXCEPT !.normalized = DictSet(@, field.name, value)]

\* validate_metadata, lines 118-145, storing the value in lower case
ValidateSelectLowered(field, value, acc) ==
    LET trimmed == Strip(value.s)
        raw_options == field.options.options
        listed == JoinStr(raw_options, <<Comma, Space>>)
    IN  IF value.t # "str" THEN Rejected(acc, field, "Value must be a string", <<>>)
        ELSE IF ~field.options.present \/ Len(raw_options) = 0
        THEN Rejected(acc, field, "Select field is missing options", <<>>)
        ELSE IF Len(trimmed) = 0
        THEN Rejected(acc, field, "Value must be one of: ", listed)
        ELSE IF ~\E i \in 1..Len(raw_options) : raw_options[i] = trimmed
        THEN Rejected(acc, field, "Value must be one of: ", listed)
        ELSE Normalized(acc, field, VStr(Lower(trimmed)))

\* validate_metadata, lines 118-145, comparing without regard to letter case
ValidateSelectAnyCase(field, value, acc) ==
    LET trimmed == Strip(value.s)
        raw_options == field.options.options
        listed == JoinStr(raw_options, <<Comma, Space>>)
    IN  IF value.t # "str" THEN Rejected(acc, field, "Value must be a string", <<>>)
        ELSE IF ~field.options.present \/ Len(raw_options) = 0
        THEN Rejected(acc, field, "Select field is missing options", <<>>)
        ELSE IF Len(trimmed) = 0
        THEN Rejected(acc, field, "Value must be one of: ", listed)
        ELSE IF ~\E i \in 1..Len(raw_options) : Lower(raw_options[i]) = Lower(trimmed)
        THEN Rejected(acc, field, "Value must be one of: ", listed)
        ELSE Normalized(acc, field, VStr(trimmed))

\* validate_metadata, lines 118-145: a select field's value
ValidateSelect(field, value, acc) ==
    LET trimmed == Strip(value.s)
        raw_options == field.options.options
        listed == JoinStr(raw_options, <<Comma, Space>>)
    IN  IF value.t # "str" THEN Rejected(acc, field, "Value must be a string", <<>>)
        ELSE IF ~field.options.present \/ Len(raw_options) = 0
        THEN Rejected(acc, field, "Select field is missing options", <<>>)
        ELSE IF Len(trimmed) = 0
        THEN Rejected(acc, field, "Value must be one of: ", listed)
        ELSE IF ~\E i \in 1..Len(raw_options) : raw_options[i] = trimmed
        THEN Rejected(acc, field, "Value must be one of: ", listed)
        ELSE Normalized(acc, field, VStr(trimmed))

\* validate_metadata, lines 79-109: a timestamp field's value
ValidateTimestamp(field, value, acc) ==
    LET trimmed == Strip(value.s)
        adjusted == IF Len(trimmed) > 0 /\ trimmed[Len(trimmed)] = UpperZ
                    THEN SubSeq(trimmed, 1, Len(trimmed) - 1)
                         \o <<Plus, 52, 52, Colon, 52, 52>>
                    ELSE trimmed
    IN  IF value.t # "str"
        THEN Rejected(acc, field, "Value must be a timestamp (ISO 8601)", <<>>)
        ELSE IF (\A i \in 1..Len(trimmed) : trimmed[i] \notin {UpperT, Space})
        THEN Rejected(acc, field, "Value must be a timestamp (ISO 8601)", <<>>)
        ELSE IF ~DatetimeFromIsoformat(adjusted)
        THEN Rejected(acc, field, "Value must be a timestamp (ISO 8601)", <<>>)
        ELSE Normalized(acc, field, VStr(trimmed))

\* validate_metadata, lines 41-147: one turn of the loop over the fields
ValidateField(field, metadata_values, acc) ==
    LET value == IF HasKey(metadata_values, field.name)
                 THEN ValueOf(metadata_values, field.name) ELSE VNone
        trimmed == Strip(value.s)
    IN  IF ~HasKey(metadata_values, field.name) \/ value.t = "none"
        THEN IF field.is_required
             THEN Rejected(acc, field, "Field is required", <<>>)
             ELSE acc
        ELSE IF field.field_type = "text"
        THEN IF value.t # "str" THEN Rejected(acc, field, "Value must be a string", <<>>)
             ELSE IF field.is_required /\ Len(trimmed) = 0
             THEN Rejected(acc, field, "Field is required", <<>>)
             ELSE Normalized(acc, field, VStr(trimmed))
        ELSE IF field.field_type = "number"
        THEN IF value.t \notin {"int", "float"}
             THEN Rejected(acc, field, "Value must be a number", <<>>)
             ELSE Normalized(acc, field, value)
        ELSE IF field.field_type = "date"
        THEN IF value.t # "str"
             THEN Rejected(acc, field, "Value must be a date (YYYY-MM-DD)", <<>>)
             ELSE IF ~DateFromIsoformat(trimmed)
             THEN Rejected(acc, field, "Value must be a date (YYYY-MM-DD)", <<>>)
             ELSE Normalized(acc, field, VStr(trimmed))
        ELSE IF field.field_type = "timestamp"
        THEN ValidateTimestamp(field, value, acc)
        ELSE IF field.field_type = "checkbox"
        THEN IF value.t # "bool"
             THEN Rejected(acc, field, "Value must be true or false", <<>>)
             ELSE Normalized(acc, field, value)
        ELSE IF field.field_type = "select"
        THEN ValidateSelect(field, value, acc)
        ELSE Rejected(acc, field, "Unsupported field type", <<>>)

\* validate_metadata, lines 40-147: the loop over field_by_name.values()
RECURSIVE ValidateFields(_, _, _)
ValidateFields(field_by_name, metadata_values, acc) ==
    IF Len(field_by_name) = 0 THEN acc
    ELSE ValidateFields(Tail(field_by_name), metadata_values,
                        ValidateField(field_by_name[1][2], metadata_values, acc))

\* what validate_metadata did: the map or None it returned, or the errors
\* of the MetadataValidationError it raised
Invalid(errors) == [exc |-> "MetadataValidationError", errors |-> errors,
                    value |-> NoMetadata]
Valid(value) == [exc |-> "none", errors |-> <<>>, value |-> value]

\* validate_metadata, lines 32-154, raising at the first error instead of
\* collecting them all
ValidateValuesFirstError(field_by_name, metadata_values, provided) ==
    LET done == ValidateFields(field_by_name, metadata_values,
                               [errors |-> UnknownFields(metadata_values, field_by_name),
                                normalized |-> <<>>])
    IN  IF Len(done.errors) > 0 THEN Invalid(<< done.errors[1] >>)
        ELSE IF Len(done.normalized) = 0 /\ ~provided THEN Valid(NoMetadata)
        ELSE Valid(Mapping(done.normalized))

\* validate_metadata, lines 32-154, returning None for every empty result,
\* whether or not a mapping was provided
ValidateValuesNoneWhenEmpty(field_by_name, metadata_values, provided) ==
    LET done == ValidateFields(field_by_name, metadata_values,
                               [errors |-> UnknownFields(metadata_values, field_by_name),
                                normalized |-> <<>>])
    IN  IF Len(done.errors) > 0 THEN Invalid(done.errors)
        ELSE IF Len(done.normalized) = 0 THEN Valid(NoMetadata)
        ELSE Valid(Mapping(done.normalized))

\* validate_metadata, lines 32-154, for the mapping's items
ValidateValues(field_by_name, metadata_values, provided) ==
    LET done == ValidateFields(field_by_name, metadata_values,
                               [errors |-> UnknownFields(metadata_values, field_by_name),
                                normalized |-> <<>>])
    IN  IF Len(done.errors) > 0 THEN Invalid(done.errors)
        ELSE IF Len(done.normalized) = 0 /\ ~provided THEN Valid(NoMetadata)
        ELSE Valid(Mapping(done.normalized))

\* validate_metadata
ValidateMetadata(definitions, metadata) ==
    IF metadata.kind = "none"
    THEN ValidateValues(FieldByName(definitions), <<>>, FALSE)
    ELSE IF metadata.kind # "map"
    THEN Invalid(<< FieldError(MetadataWord, "Metadata must be an object", <<>>) >>)
    ELSE ValidateValues(FieldByName(definitions), metadata.pairs, TRUE)

\* str.startswith(prefix)
StartsWith(s, prefix) ==
    Len(s) >= Len(prefix) /\ SubSeq(s, 1, Len(prefix)) = prefix

\* 10 ** e for e >= 0, no greater than MaxIterations
RECURSIVE Pow10(_)
Pow10(e) == IF e <= 0 THEN 1 ELSE IF e >= 9 THEN 1000000000 ELSE 10 * Pow10(e - 1)

BadFloat == [exc |-> "ValueError", value |-> VNone]

\* float(text) for the decimal forms [sign]digits[.digits][e[sign]digits]:
\* the value in hundredths, rounded toward zero and no greater than
\* MaxIterations, or ValueError
ParseFloat(text) ==
    LET signed == Len(text) > 0 /\ text[1] \in {Hyphen, Plus}
        body == IF signed THEN Tail(text) ELSE text
        marks == { i \in 1..Len(body) : body[i] \in {LowerE, UpperE} }
        e_at == IF marks = {} THEN Len(body) + 1 ELSE CHOOSE i \in marks : TRUE
        mantissa == Split(Slice(body, 1, e_at - 1), Dot)
        whole == mantissa[1]
        fraction == IF Len(mantissa) = 2 THEN mantissa[2] ELSE <<>>
        exponent == Slice(body, e_at + 1, Len(body))
        exp_signed == Len(exponent) > 0 /\ exponent[1] \in {Hyphen, Plus}
        exp_digits == IF exp_signed THEN Tail(exponent) ELSE exponent
        digits == whole \o Slice(fraction \o <<52, 52>>, 1, 2)
        hundredths == IF Len(digits) > 9 THEN MaxIterations ELSE Num(digits)
        e == IF marks = {} THEN 0
             ELSE IF Len(exp_digits) > 2 THEN 99
             ELSE Num(exp_digits)
        scaled == IF exp_signed /\ exponent[1] = Hyphen THEN hundredths \div Pow10(e)
                  ELSE IF hundredths = 0 THEN 0
                  ELSE IF hundredths > MaxIterations \div Pow10(e) THEN MaxIterations
                  ELSE hundredths * Pow10(e)
    IN  IF Cardinality(marks) > 1 \/ Len(mantissa) > 2 THEN BadFloat
        ELSE IF Len(whole) + Len(fraction) = 0 THEN BadFloat
        ELSE IF \E i \in 1..Len(whole) : ~IsDigit(whole[i]) THEN BadFloat
        ELSE IF \E i \in 1..Len(fraction) : ~IsDigit(fraction[i]) THEN BadFloat
        ELSE IF marks # {} /\ (Len(exp_digits) = 0
                               \/ \E i \in 1..Len(exp_digits) : ~IsDigit(exp_digits[i]))
        THEN BadFloat
        ELSE [exc |-> "none",
              value |-> VFloat(IF signed /\ text[1] = Hyphen THEN 0 - scaled ELSE scaled)]

\* the outcome of parsing a filter or a sort: 200 with what it stands for,
\* or the status of the HTTPException raised
FilterValue(value) == [status |-> 200, value |-> value]
FilterRefused == [status |-> 422, value |-> VNone]

\* _parse_filter_value
ParseFilterValue(field, raw_value) ==
    LET value == Strip(raw_value)
        raw_options == field.options.options
        adjusted == IF value[Len(value)] = UpperZ
                    THEN SubSeq(value, 1, Len(value) - 1) \o <<Plus, 52, 52, Colon, 52, 52>>
                    ELSE value
        lowered == Lower(value)
        as_int == ParseInt(value)
        as_float == ParseFloat(value)
    IN  IF Len(value) = 0 THEN FilterRefused
        ELSE IF field.field_type = "select"
                /\ (~field.options.present \/ Len(raw_options) = 0)
        THEN FilterRefused
        ELSE IF field.field_type = "select"
                /\ ~\E i \in 1..Len(raw_options) : raw_options[i] = value
        THEN FilterRefused
        ELSE IF field.field_type = "date" /\ ~DateFromIsoformat(value)
        THEN FilterRefused
        ELSE IF field.field_type = "timestamp"
                /\ \A i \in 1..Len(value) : value[i] \notin {UpperT, Space}
        THEN FilterRefused
        ELSE IF field.field_type = "timestamp" /\ ~DatetimeFromIsoformat(adjusted)
        THEN FilterRefused
        ELSE IF field.field_type \in {"text", "select", "date", "timestamp"}
        THEN FilterValue(VStr(value))
        ELSE IF field.field_type = "number"
        THEN IF \E i \in 1..Len(value) : value[i] \in {Dot, LowerE, UpperE}
             THEN IF as_float.exc # "none" THEN FilterRefused
                  ELSE FilterValue(as_float.value)
             ELSE IF as_int.exc # "none" THEN FilterRefused
             ELSE FilterValue(VInt(as_int.int.val))
        ELSE IF field.field_type = "checkbox"
        THEN IF lowered \in {<<45, 43, 46, 30>>, <<53>>} THEN FilterValue(VBool(TRUE))
             ELSE IF lowered \in {<<31, 26, 37, 44, 30>>, <<52>>} THEN FilterValue(VBool(FALSE))
             ELSE FilterRefused
        ELSE FilterRefused

\* the comparison a filter adds to the query: json_extract of the field's
\* path in Item.metadata_ == value
Where(field, value) == [field |-> field, value |-> value]

\* _apply_item_filters: the comparisons added for the filters, or 422
RECURSIVE ApplyItemFilters(_, _)
ApplyItemFilters(filters, field_by_name) ==
    IF Len(filters) = 0 THEN [status |-> 200, where |-> <<>>]
    ELSE LET raw_filter == filters[1]
             halves == Partition(raw_filter, Pad)
             field_name == Strip(halves[1])
             parsed == ParseFilterValue(ValueOf(field_by_name, field_name), halves[3])
             rest == ApplyItemFilters(Tail(filters), field_by_name)
         IN  IF \A i \in 1..Len(raw_filter) : raw_filter[i] # Pad
             THEN [status |-> 422, where |-> <<>>]
             ELSE IF Len(field_name) = 0 THEN [status |-> 422, where |-> <<>>]
             ELSE IF ~HasKey(field_by_name, field_name) THEN [status |-> 422, where |-> <<>>]
             ELSE IF parsed.status # 200 THEN [status |-> parsed.status, where |-> <<>>]
             ELSE IF rest.status # 200 THEN rest
             ELSE [status |-> 200,
                   where |-> << Where(field_name, parsed.value) >> \o rest.where]

\* the words name and created_at
NameWord == <<39, 26, 38, 30>>
CreatedAtWord == <<28, 43, 30, 26, 45, 30, 29, 63, 26, 45>>

\* a sort argument: None, or the text given
NoSort == [given |-> FALSE, text |-> <<>>]
Sort(text) == [given |-> TRUE, text |-> text]

\* the order_by of the listing: the column, the metadata field when the
\* column is Item.metadata_, the direction; Item.id.desc() breaks ties
OrderBy(column, field, descending) ==
    [status |-> 200, column |-> column, field |-> field, descending |-> descending]
SortRefused == [status |-> 422, column |-> "none", field |-> <<>>, descending |-> FALSE]

\* _sort_requires_field_definitions
SortRequiresFieldDefinitions(sort) ==
    LET sort_value == Strip(sort.text)
        sort_key == IF StartsWith(sort_value, <<Hyphen>>) THEN Tail(sort_value)
                    ELSE sort_value
    IN  /\ sort.given
        /\ Len(sort.text) > 0
        /\ Len(sort_value) > 0
        /\ \/ StartsWith(sort_key, MetadataWord \o <<Colon>>)
           \/ StartsWith(sort_key, MetadataWord \o <<Dot>>)

\* _apply_item_sort; loaded tells whether field_by_name is not None
ApplyItemSort(sort, field_by_name, loaded) ==
    LET sort_value == Strip(sort.text)
        descending == StartsWith(sort_value, <<Hyphen>>)
        sort_key == IF descending THEN Tail(sort_value) ELSE sort_value
        field_name == Strip(IF \E i \in 1..Len(sort_key) : sort_key[i] = Colon
                            THEN Partition(sort_key, Colon)[3]
                            ELSE Partition(sort_key, Dot)[3])
    IN  IF ~sort.given THEN OrderBy("created_at", <<>>, TRUE)
        ELSE IF Len(sort_value) = 0 THEN OrderBy("created_at", <<>>, TRUE)
        ELSE IF sort_key = NameWord THEN OrderBy("name", <<>>, descending)
        ELSE IF sort_key = CreatedAtWord THEN OrderBy("created_at", <<>>, descending)
        ELSE IF StartsWith(sort_key, MetadataWord \o <<Colon>>)
                \/ StartsWith(sort_key, MetadataWord \o <<Dot>>)
        THEN IF ~loaded THEN SortRefused
             ELSE IF Len(field_name) = 0 THEN SortRefused
             ELSE IF ~HasKey(field_by_name, field_name) THEN SortRefused
             ELSE OrderBy("metadata", ValueOf(field_by_name, field_name).name, descending)
        ELSE SortRefused

\* list_items, lines 339-356, for a collection the caller owns: the query
\* the filters and the sort make of the listing, or 422
Query(filters, sort, definitions) ==
    LET loaded == Len(filters) > 0 \/ SortRequiresFieldDefinitions(sort)
        field_by_name == IF loaded THEN FieldByName(definitions) ELSE <<>>
        filtered == ApplyItemFilters(filters, field_by_name)
        sorted == ApplyItemSort(sort, field_by_name, loaded)
    IN  IF filtered.status # 200
        THEN [status |-> filtered.status, where |-> <<>>, order_by |-> SortRefused]
        ELSE IF sorted.status # 200
        THEN [status |-> sorted.status, where |-> <<>>, order_by |-> SortRefused]
        ELSE [status |-> 200, where |-> filtered.where, order_by |-> sorted]

(***************************************************************************)
(* The metadata scenario: a field list and a document are validated, and   *)
(* the result validated again; or a field list is queried with a filter    *)
(* and a sort.                                                             *)
(***************************************************************************)
NameA == <<26>>
NameB == <<27>>
NameC == <<28>>
NameAEqB == <<26, Pad, 27>>
NameAColonB == <<26, Colon, 27>>
OptionA == <<0>>
OptionB == <<27>>
SomeDate == <<54, 52, 54, 56, Hyphen, 52, 53, Hyphen, 52, 57>>
SomeTimestamp == SomeDate \o <<UpperT, 53, 52, Colon, 52, 52, UpperZ>>

\* the field definitions the lists are made of, in the order of the lists
FieldPool ==
    << FieldDefinition(NameA, "text", TRUE, NoOptions),
       FieldDefinition(NameA, "text", FALSE, NoOptions),
       FieldDefinition(NameA, "number", TRUE, NoOptions),
       FieldDefinition(NameA, "date", FALSE, NoOptions),
       FieldDefinition(NameA, "select", FALSE, Options(<<OptionA, OptionB>>)),
       FieldDefinition(NameB, "timestamp", TRUE, NoOptions),
       FieldDefinition(NameB, "checkbox", FALSE, NoOptions),
       FieldDefinition(NameB, "select", TRUE, Options(<<>>)),
       FieldDefinition(NameB, "bogus", FALSE, NoOptions),
       FieldDefinition(NameAEqB, "date", FALSE, NoOptions),
       FieldDefinition(NameAColonB, "select", FALSE, Options(<<OptionA>>)) >>

\* the increasing index lists of up to n of 1..m
RECURSIVE Choices(_, _)
Choices(n, m) ==
    IF n = 0 THEN { <<>> }
    ELSE Choices(n - 1, m)
         \cup { Append(c, k) : c \in { d \in Choices(n - 1, m) : Len(d) = n - 1 },
                               k \in 1..m }

Increasing(c) == \A i \in 1..(Len(c) - 1) : c[i] < c[i + 1]

\* field lists of up to MaxFields fields with distinct names
FieldLists ==
    { [i \in 1..Len(c) |-> FieldPool[c[i]]] :
        c \in { d \in Choices(MaxFields, Len(FieldPool)) :
                  /\ Increasing(d)
                  /\ \A i, j \in 1..Len(d) :
                        i # j => FieldPool[d[i]].name # FieldPool[d[j]].name } }

DocKeys == <<NameA, NameB, NameC>>
DocValues ==
    { VNone, VStr(<<Space>> \o OptionA \o <<Space>>), VStr(<<26>>),
      VStr(<<Space>> \o SomeDate), VStr(<<Space, Space>>), VInt(3), VBool(TRUE),
      VStr(SomeTimestamp \o <<Space>>), VList }

\* documents of up to MaxKeys keys
Documents ==
    { NoMetadata, NotMapping }
    \cup UNION { { Mapping([i \in 1..Len(c) |-> <<DocKeys[c[i]], v[i]>>]) :
                     v \in [1..Len(c) -> DocValues] } :
                 c \in { d \in Choices(MaxKeys, Len(DocKeys)) : Increasing(d) } }

\* the values of a filter
FilterStrings ==
    { <<Space>> \o SomeDate \o <<Space>>, SomeDate \o <<Hyphen>>, OptionA, <<26>>,
      <<Space>> \o OptionB, <<>>, <<Space>>, SomeTimestamp,
      SomeDate \o <<Space, 53, 52>> }

\* filters: Field=value for the fields of the list, and what is no filter
FilterTokens(definitions) ==
    { definitions[i].name \o <<Pad>> \o v :
        i \in 1..Len(definitions), v \in FilterStrings }
    \cup { NameC \o <<Pad>> \o OptionA, <<Pad>> \o OptionA, NameA }

\* sort tokens: the four forms for the fields of the list, and others
SortTokens(definitions) ==
    { dash \o MetadataWord \o <<sep>> \o definitions[i].name :
        dash \in {<<>>, <<Hyphen>>}, sep \in {Colon, Dot}, i \in 1..Len(definitions) }
    \cup { NameWord, <<Hyphen>> \o NameWord, CreatedAtWord, <<Hyphen>> \o CreatedAtWord,
           <<>>, <<Space>>, <<Space>> \o NameWord, NameA,
           MetadataWord, MetadataWord \o <<Colon>>, MetadataWord \o <<Colon>> \o NameC,
           <<Hyphen, Hyphen>> \o NameWord,
           MetadataWord \o <<Colon, Space>> \o NameA }

NoOutcome == [exc |-> "idle", errors |-> <<>>, value |-> NoMetadata]
NoQuery == [status |-> 0, where |-> <<>>, order_by |-> SortRefused]

Scenario(kind, definitions, metadata) ==
    [kind |-> kind, stage |-> "new", definitions |-> definitions,
     metadata |-> metadata, outcome |-> NoOutcome, again |-> NoOutcome,
     filters |-> <<>>, sort |-> NoSort, query |-> NoQuery]

InitMeta ==
    /\ meta \in { Scenario("document", d, m) : d \in FieldLists, m \in Documents }
                \cup { Scenario("listing", d, NoMetadata) : d \in FieldLists }
    /\ field_definitions = <<>>
    /\ schema_template_fields = <<>>
    /\ items = <<>>
    /\ inflight = {}
    /\ answer = <<>>
    /\ now = StartNow
    /\ jwt_algorithm = "HS256"
    /\ token = NoToken
    /\ presented = <<>>
    /\ result = Idle
    /\ pw = NoPw
    /\ NoAuth
    /\ NoCommunity

\* validate_metadata(field_definitions, metadata)
Validate ==
    /\ meta.kind = "document"
    /\ meta.stage = "new"
    /\ meta' = [meta EXCEPT !.stage = "validated",
                            !.outcome = ValidateMetadata(meta.definitions, meta.metadata)]
    /\ UNCHANGED <<field_definitions, schema_template_fields, items, inflight,
                   answer, securityVars, communityVars>>

\* validate_metadata(field_definitions, the document it returned)
Revalidate ==
    /\ meta.stage = "validated"
    /\ meta.outcome.exc = "none"
    /\ meta' = [meta EXCEPT !.stage = "revalidated",
                            !.again = ValidateMetadata(meta.definitions, meta.outcome.value)]
    /\ UNCHANGED <<field_definitions, schema_template_fields, items, inflight,
                   answer, securityVars, communityVars>>

\* the listing is asked for with one filter, or with a sort, or with both
Listing ==
    /\ meta.kind = "listing"
    /\ meta.stage = "new"
    /\ \E filters \in {<<>>} \cup { <<f>> : f \in FilterTokens(meta.definitions) },
          sort \in {NoSort} \cup { Sort(t) : t \in SortTokens(meta.definitions) } :
            /\ Len(filters) = 0 \/ ~sort.given \/ sort.text = <<Hyphen>> \o NameWord
            /\ meta' = [meta EXCEPT !.stage = "listed",
                                    !.filters = filters,
                                    !.sort = sort,
                                    !.query = Query(filters, sort, meta.definitions)]
    /\ UNCHANGED <<field_definitions, schema_template_fields, items, inflight,
                   answer, securityVars, communityVars>>

NextMeta ==
    \/ Validate
    \/ Revalidate
    \/ Listing

SpecMeta == InitMeta /\ [][NextMeta]_vars

(***************************************************************************)
(* The catalogue: the field definitions of one collection, the fields of   *)
(* one schema template and the items of the collection.                    *)
(***************************************************************************)
\* a key of a PATCH body: not set, null, or a value; s is the text of a
\* name, word a field type, b a flag, options the list of an options object
KeyUnset == [kind |-> "unset", s |-> <<>>, word |-> "", b |-> FALSE, options |-> <<>>]
KeyNull == [kind |-> "null", s |-> <<>>, word |-> "", b |-> FALSE, options |-> <<>>]
KeyName(s) == [kind |-> "value", s |-> s, word |-> "", b |-> FALSE, options |-> <<>>]
KeyType(word) == [kind |-> "value", s |-> <<>>, word |-> word, b |-> FALSE, options |-> <<>>]
KeyFlag(b) == [kind |-> "value", s |-> <<>>, word |-> "", b |-> b, options |-> <<>>]
KeyOptions(list) == [kind |-> "value", s |-> <<>>, word |-> "", b |-> FALSE, options |-> list]

ALLOWED_FIELD_TYPES == {"text", "number", "date", "timestamp", "checkbox", "select"}

\* what a request model makes of a body: the validated request, or 422
ValidRequest(request) == [status |-> 200, request |-> request]
InvalidRequest(payload) == [status |-> 422, request |-> payload]

\* _normalize_field_name raises nothing
NormalizeFieldNameOk(value) == Len(Strip(value)) > 0

\* _normalize_field_type raises nothing; the type words of the bodies are
\* given trimmed and in lower case
NormalizeFieldTypeOk(value) == value \in ALLOWED_FIELD_TYPES

\* _normalize_options raises nothing, for None or an object with a list of
\* strings under "options"
NormalizeOptionsOk(value) ==
    ~value.present
    \/ /\ Len(value.options) > 0
       /\ \A i \in 1..Len(value.options) : Len(Strip(value.options[i])) > 0

\* _normalize_options
NormalizeOptions(value) ==
    IF ~value.present THEN NoOptions
    ELSE Options([i \in 1..Len(value.options) |-> Strip(value.options[i])])

\* SchemaTemplateFieldCreateRequest: the validators of name, field_type
\* and options, then validate_select_options
SchemaTemplateFieldCreateRequest(payload) ==
    IF ~NormalizeFieldNameOk(payload.name) THEN InvalidRequest(payload)
    ELSE IF ~NormalizeFieldTypeOk(payload.field_type) THEN InvalidRequest(payload)
    ELSE IF ~NormalizeOptionsOk(payload.options) THEN InvalidRequest(payload)
    ELSE IF payload.field_type = "select" /\ ~payload.options.present
    THEN InvalidRequest(payload)
    ELSE IF payload.field_type # "select" /\ payload.options.present
    THEN InvalidRequest(payload)
    ELSE ValidRequest([payload EXCEPT !.name = Strip(payload.name),
                                  !.options = NormalizeOptions(payload.options)])

\* SchemaTemplateFieldUpdateRequest: the validators of name, field_type
\* and options, each letting None through
SchemaTemplateFieldUpdateRequest(payload) ==
    IF payload.name.kind = "value" /\ ~NormalizeFieldNameOk(payload.name.s)
    THEN InvalidRequest(payload)
    ELSE IF payload.field_type.kind = "value"
            /\ ~NormalizeFieldTypeOk(payload.field_type.word)
    THEN InvalidRequest(payload)
    ELSE IF payload.options.kind = "value"
            /\ ~NormalizeOptionsOk(Options(payload.options.options))
    THEN InvalidRequest(payload)
    ELSE ValidRequest([payload EXCEPT
            !.name = IF @.kind = "value" THEN KeyName(Strip(@.s)) ELSE @,
            !.options = IF @.kind = "value"
                        THEN KeyOptions(NormalizeOptions(Options(@.options)).options)
                        ELSE @])

\* FieldDefinitionCreateRequest and FieldDefinitionUpdateRequest, the
\* request models of the collection's fields: the name trimmed and not
\* blank, the type one of the six, options given if and only if the type of
\* a new field is select
FieldDefinitionCreateRequest(payload) == SchemaTemplateFieldCreateRequest(payload)
FieldDefinitionUpdateRequest(payload) == SchemaTemplateFieldUpdateRequest(payload)

\* a row of a table of fields; the rows of a table are kept in the order
\* of their positions, which is the order they were added in
Row(id, field) == [id |-> id, field |-> field]

HasRow(rows, id) == \E i \in 1..Len(rows) : rows[i].id = id
RowOf(rows, id) == rows[CHOOSE i \in 1..Len(rows) : rows[i].id = id]

\* the id the database gives the next row of a table
NextId(rows) ==
    IF Len(rows) = 0 THEN 1
    ELSE 1 + CHOOSE n \in { rows[i].id : i \in 1..Len(rows) } :
                 \A i \in 1..Len(rows) : rows[i].id <= n

\* select(FieldDefinition.id).where(name == name, id != field_id) finds a
\* row; field_id is 0 when no row is left out
NameTaken(rows, name, field_id) ==
    \E i \in 1..Len(rows) : rows[i].field.name = name /\ rows[i].id # field_id

\* what a handler did: its status and the table its commit left
Outcome(status, rows) == [status |-> status, rows |-> rows]

\* the commit raises IntegrityError for a NOT NULL column or a type that is
\* none of the six only: a table without its unique constraint
IntegrityErrorNotUnique(rows, row, nulls) ==
    \/ nulls # {}
    \/ row.field.field_type \notin ALLOWED_FIELD_TYPES

\* the commit of an INSERT or UPDATE of the row raises IntegrityError: a
\* NOT NULL column is None, or another row has the name, or the type is
\* none of the six
IntegrityError(rows, row, nulls) ==
    \/ nulls # {}
    \/ NameTaken(rows, row.field.name, row.id)
    \/ row.field.field_type \notin ALLOWED_FIELD_TYPES

\* db.add(field); db.commit() of a new row, IntegrityError answered 409
Inserted(rows, row) ==
    IF IntegrityError(rows, row, {}) THEN Outcome(409, rows)
    ELSE Outcome(201, Append(rows, row))

\* the UPDATE the session flushes: the columns whose assigned value differs
\* from the loaded one, the others as the table has them
Flushed(loaded, assigned, current) ==
    [name |-> IF assigned.name # loaded.name THEN assigned.name ELSE current.name,
     field_type |-> IF assigned.field_type # loaded.field_type
                    THEN assigned.field_type ELSE current.field_type,
     is_required |-> IF assigned.is_required # loaded.is_required
                     THEN assigned.is_required ELSE current.is_required,
     is_private |-> IF assigned.is_private # loaded.is_private
                    THEN assigned.is_private ELSE current.is_private,
     options |-> IF assigned.options # loaded.options
                 THEN assigned.options ELSE current.options]

\* db.add(field); db.commit() of a loaded row, IntegrityError answered 409
Updated(rows, field_id, loaded, assigned, nulls) ==
    LET row == Row(field_id, Flushed(loaded, assigned, RowOf(rows, field_id).field))
    IN  IF IntegrityError(rows, row, nulls) THEN Outcome(409, rows)
        ELSE Outcome(200, [i \in 1..Len(rows) |->
                              IF rows[i].id = field_id THEN row ELSE rows[i]])

\* what a PATCH handler makes of the request and the loaded field before
\* its commit: the status it raises, or the values assigned to the field
\* and the columns assigned None
Assigned(field, nulls) == [status |-> 200, field |-> field, nulls |-> nulls]
Refused(status, field) == [status |-> status, field |-> field, nulls |-> {}]

\* the keys of the body that are null where the column is NOT NULL
NullKeys(data, keys) == { k \in keys : data[k].kind = "null" }

\* what a handler found before its commit: the status it raises, or the
\* field it adds or the values it assigns and the columns it assigns None
Checked(status, loaded, field, nulls) ==
    [status |-> status, loaded |-> loaded, field |-> field, nulls |-> nulls]

\* create_field, lines 92-123: the request model, the existence check and
\* the new field
CreateFieldChecked(rows, payload) ==
    LET validated == FieldDefinitionCreateRequest(payload)
        request == validated.request
        field == FieldDefinition(request.name, request.field_type,
                                 request.is_required, request.options)
    IN  IF validated.status # 200 THEN Checked(422, field, field, {})
        ELSE IF NameTaken(rows, request.name, 0) THEN Checked(409, field, field, {})
        ELSE Checked(200, field, field, {})

\* create_field, for the collection of its owner
CreateFieldOutcome(rows, payload) ==
    LET checked == CreateFieldChecked(rows, payload)
    IN  IF checked.status # 200 THEN Outcome(checked.status, rows)
        ELSE Inserted(rows, Row(NextId(rows), checked.field))

\* update_field, lines 147-189: the duplicate check, the rules of the
\* options and the assignments
UpdateFieldAssigned(rows, field_id, field, data) ==
    LET options_provided == data.options.kind # "unset"
        new_options == IF ~options_provided THEN field.options
                       ELSE IF data.options.kind = "null" THEN NoOptions
                       ELSE Options(data.options.options)
        is_select == IF data.field_type.kind = "unset" THEN field.field_type = "select"
                     ELSE data.field_type.kind = "value" /\ data.field_type.word = "select"
    IN  IF /\ data.name.kind = "value"
           /\ data.name.s # field.name
           /\ NameTaken(rows, data.name.s, field_id)
        THEN Refused(409, field)
        ELSE IF is_select /\ ~new_options.present THEN Refused(422, field)
        ELSE IF ~is_select /\ options_provided /\ data.options.kind # "null"
        THEN Refused(422, field)
        ELSE Assigned(
                [field EXCEPT
                    !.name = IF data.name.kind = "value" THEN data.name.s ELSE @,
                    !.field_type = IF data.field_type.kind = "value"
                                   THEN data.field_type.word ELSE @,
                    !.is_required = IF data.is_required.kind = "value"
                                    THEN data.is_required.b ELSE @,
                    !.options = IF is_select THEN new_options ELSE NoOptions],
                NullKeys(data, {"name", "field_type", "is_required"}))

\* update_field, lines 144-189: the request model, the field loaded and
\* what is assigned to it
UpdateFieldChecked(rows, field_id, payload) ==
    LET validated == FieldDefinitionUpdateRequest(payload)
        field == RowOf(rows, field_id).field
        assigned == UpdateFieldAssigned(rows, field_id, field, validated.request)
        nothing == FieldDefinition(<<>>, "", FALSE, NoOptions)
    IN  IF validated.status # 200 THEN Checked(422, nothing, nothing, {})
        ELSE IF ~HasRow(rows, field_id) THEN Checked(404, nothing, nothing, {})
        ELSE Checked(assigned.status, field, assigned.field, assigned.nulls)

\* update_field, for a collection of its owner
UpdateFieldOutcome(rows, field_id, payload) ==
    LET checked == UpdateFieldChecked(rows, field_id, payload)
    IN  IF checked.status # 200 THEN Outcome(checked.status, rows)
        ELSE Updated(rows, field_id, checked.loaded, checked.field, checked.nulls)

\* the table without the row
Without(rows, field_id) == SelectSeq(rows, LAMBDA row : row.id # field_id)

\* delete_field, taking the values stored under the field's name out of
\* the metadata of the items as well
DeleteFieldAndValuesOutcome(rows, stored_items, field_id) ==
    IF ~HasRow(rows, field_id)
    THEN [status |-> 404, rows |-> rows, items |-> stored_items]
    ELSE [status |-> 200, rows |-> Without(rows, field_id),
          items |-> [i \in 1..Len(stored_items) |->
                        [stored_items[i] EXCEPT !.metadata_.pairs =
                            SelectSeq(@, LAMBDA pair :
                                pair[1] # RowOf(rows, field_id).field.name)]]]

\* delete_field: the field definitions and the items its commit leaves
DeleteFieldOutcome(rows, stored_items, field_id) ==
    IF ~HasRow(rows, field_id)
    THEN [status |-> 404, rows |-> rows, items |-> stored_items]
    ELSE [status |-> 200, rows |-> Without(rows, field_id), items |-> stored_items]

\* create_schema_template_field, for the template of its owner
CreateSchemaTemplateFieldOutcome(rows, payload) ==
    LET validated == SchemaTemplateFieldCreateRequest(payload)
        request == validated.request
        field == [FieldDefinition(request.name, request.field_type,
                                  request.is_required, request.options)
                     EXCEPT !.is_private = request.is_private]
    IN  IF validated.status # 200 THEN Outcome(422, rows)
        ELSE IF NameTaken(rows, request.name, 0) THEN Outcome(409, rows)
        ELSE Inserted(rows, Row(NextId(rows), field))

\* update_schema_template_field, lines 566-613: the duplicate check, the
\* rules of the options and the assignments
UpdateSchemaTemplateFieldAssigned(rows, field_id, field, data) ==
    LET options_provided == data.options.kind # "unset"
        new_options == IF ~options_provided THEN field.options
                       ELSE IF data.options.kind = "null" THEN NoOptions
                       ELSE Options(data.options.options)
        is_select == IF data.field_type.kind = "unset" THEN field.field_type = "select"
                     ELSE data.field_type.kind = "value" /\ data.field_type.word = "select"
    IN  IF /\ data.name.kind = "value"
           /\ data.name.s # field.name
           /\ NameTaken(rows, data.name.s, field_id)
        THEN Refused(409, field)
        ELSE IF is_select /\ ~new_options.present THEN Refused(422, field)
        ELSE IF ~is_select /\ options_provided /\ data.options.kind # "null"
        THEN Refused(422, field)
        ELSE Assigned(
                [field EXCEPT
                    !.name = IF data.name.kind = "value" THEN data.name.s ELSE @,
                    !.field_type = IF data.field_type.kind = "value"
                                   THEN data.field_type.word ELSE @,
                    !.is_required = IF data.is_required.kind = "value"
                                    THEN data.is_required.b ELSE @,
                    !.is_private = IF data.is_private.kind = "value"
                                   THEN data.is_private.b ELSE @,
                    !.options = IF is_select THEN new_options ELSE NoOptions],
                NullKeys(data, {"name", "field_type", "is_required", "is_private"}))

\* update_schema_template_field, for a template of its owner
UpdateSchemaTemplateFieldOutcome(rows, field_id, payload) ==
    LET validated == SchemaTemplateFieldUpdateRequest(payload)
        field == RowOf(rows, field_id).field
        assigned == UpdateSchemaTemplateFieldAssigned(rows, field_id, field,
                                                      validated.request)
    IN  IF validated.status # 200 THEN Outcome(422, rows)
        ELSE IF ~HasRow(rows, field_id) THEN Outcome(404, rows)
        ELSE IF assigned.status # 200 THEN Outcome(assigned.status, rows)
        ELSE Updated(rows, field_id, field, assigned.field, assigned.nulls)

\* _validate_unique_field_names raises nothing
ValidateUniqueFieldNamesOk(fields) ==
    \A i, j \in 1..Len(fields) : fields[i].name = fields[j].name => i = j

\* _replace_template_fields: the old rows deleted, one row for each field
\* of the request
ReplaceTemplateFields(rows, fields) ==
    [i \in 1..Len(fields) |->
        Row(i,
            [FieldDefinition(fields[i].name, fields[i].field_type,
                             fields[i].is_required, fields[i].options)
                EXCEPT !.is_private = fields[i].is_private])]

\* update_schema_template with the key fields, for a template of its owner
UpdateSchemaTemplateOutcome(rows, payloads) ==
    LET validated == [i \in 1..Len(payloads) |-> SchemaTemplateFieldCreateRequest(payloads[i])]
        fields == [i \in 1..Len(payloads) |-> validated[i].request]
    IN  IF \E i \in 1..Len(payloads) : validated[i].status # 200 THEN Outcome(422, rows)
        ELSE IF ~ValidateUniqueFieldNamesOk(fields) THEN Outcome(422, rows)
        ELSE Outcome(200, ReplaceTemplateFields(rows, fields))

\* create_collection, lines 180-193: the fields copied from the template
CopiedFields(template_fields) ==
    [i \in 1..Len(template_fields) |-> Row(i, template_fields[i].field)]

\* _get_field_definitions
GetFieldDefinitions(rows) == [i \in 1..Len(rows) |-> rows[i].field]

\* _validate_metadata_or_422, returning the metadata of the request as it
\* was given instead of the document validate_metadata returned
ValidateMetadataOr422AsGiven(definitions, metadata) ==
    LET validated == ValidateMetadata(definitions, metadata)
    IN  IF validated.exc # "none" THEN [status |-> 422, value |-> NoMetadata]
        ELSE [status |-> 200, value |-> metadata]

\* _validate_metadata_or_422
\* the answer _validate_metadata_or_422 gives for what validate_metadata did
Or422(validated) ==
    IF validated.exc # "none" THEN [status |-> 422, value |-> NoMetadata]
    ELSE [status |-> 200, value |-> validated.value]

ValidateMetadataOr422(definitions, metadata) ==
    Or422(ValidateMetadata(definitions, metadata))

\* a row of items
Item(id, metadata) == [id |-> id, metadata_ |-> metadata]

\* create_item, for a collection of its owner
\* create_item once the metadata is validated: 422, or the row is added
ItemCreated(stored_items, validated) ==
    IF validated.status # 200 THEN Outcome(422, stored_items)
    ELSE Outcome(201, Append(stored_items,
                             Item(NextId(stored_items), validated.value)))

CreateItemOutcome(rows, stored_items, metadata) ==
    ItemCreated(stored_items,
                ValidateMetadataOr422(GetFieldDefinitions(rows), metadata))

\* update_item, for a collection of its owner; has_metadata tells whether
\* the body has the key metadata
\* update_item once the metadata is validated: 422, or the row is rewritten
ItemUpdated(stored_items, item_id, validated) ==
    IF validated.status # 200 THEN Outcome(422, stored_items)
    ELSE Outcome(200, [i \in 1..Len(stored_items) |->
                          IF stored_items[i].id = item_id
                          THEN Item(item_id, validated.value)
                          ELSE stored_items[i]])

UpdateItemOutcome(rows, stored_items, item_id, has_metadata, metadata) ==
    IF ~HasRow(stored_items, item_id) THEN Outcome(404, stored_items)
    ELSE IF ~has_metadata THEN Outcome(200, stored_items)
    ELSE ItemUpdated(stored_items, item_id,
                     ValidateMetadataOr422(GetFieldDefinitions(rows), metadata))

\* the bodies of the requests
FieldPayload(name, field_type, is_required, options) ==
    [name |-> name, field_type |-> field_type, is_required |-> is_required,
     is_private |-> FALSE, options |-> options]

CreatePayloads ==
    { FieldPayload(name, combination[1], FALSE, combination[2]) :
        name \in { <<Space>> \o NameA, NameB, <<Space>> },
        combination \in { <<"text", NoOptions>>,
                          <<"text", Options(<< OptionA >>)>>,
                          <<"select", NoOptions>>,
                          <<"select", Options(<< <<Space>> \o OptionA >>)>>,
                          <<"select", Options(<<>>)>>,
                          <<"bogus", NoOptions>> } }
    \cup { FieldPayload(NameA, "text", TRUE, NoOptions) }

\* PATCH bodies: the name alone, is_required alone, the name with options,
\* and field_type with options
UpdatePayloads ==
    { [name |-> name, field_type |-> KeyUnset, is_required |-> KeyUnset,
       is_private |-> KeyUnset, options |-> KeyUnset] :
        name \in { KeyNull, KeyName(NameA), KeyName(NameB \o <<Space>>) } }
    \cup { [name |-> KeyUnset, field_type |-> KeyUnset, is_required |-> KeyFlag(TRUE),
            is_private |-> KeyUnset, options |-> KeyUnset],
           [name |-> KeyName(NameA), field_type |-> KeyUnset, is_required |-> KeyUnset,
            is_private |-> KeyUnset, options |-> KeyOptions(<<OptionB>>)] }
    \cup [name : { KeyUnset },
          field_type : { KeyUnset, KeyNull, KeyType("text"), KeyType("select") },
          is_required : { KeyUnset },
          is_private : { KeyUnset },
          options : { KeyUnset, KeyNull, KeyOptions(<<OptionB>>), KeyOptions(<<>>) }]

\* the metadata of the item requests
ItemDocuments ==
    { NoMetadata,
      Mapping(<<>>),
      Mapping(<< <<NameA, VStr(<<Space>> \o OptionA \o <<Space>>)>> >>),
      Mapping(<< <<NameA, VStr(OptionB)>>, <<NameB, VStr(<<Space>>)>> >>),
      Mapping(<< <<NameB, VInt(3)>> >>),
      Mapping(<< <<NameA, VStr(OptionA)>>, <<NameC, VNone>> >>) }

NoAnswer == [endpoint |-> "none", status |-> 0]
Response(endpoint, status) == [endpoint |-> endpoint, status |-> status]

Catalog(collection) == [kind |-> "catalog", collection |-> collection]

\* a template without fields, and no collection yet
InitSchema ==
    /\ meta = Catalog(FALSE)
    /\ field_definitions = <<>>
    /\ schema_template_fields = <<>>
    /\ items = <<>>
    /\ inflight = {}
    /\ answer = NoAnswer
    /\ now = StartNow
    /\ jwt_algorithm = "HS256"
    /\ token = NoToken
    /\ presented = <<>>
    /\ result = Idle
    /\ pw = NoPw
    /\ NoAuth
    /\ NoCommunity

\* POST /schema-templates/{template_id}/fields
CreateSchemaTemplateField ==
    \E payload \in CreatePayloads :
        \E done \in { CreateSchemaTemplateFieldOutcome(schema_template_fields, payload) } :
            /\ NextId(schema_template_fields) <= MaxId
            /\ Len(done.rows) <= MaxTemplateRows
            /\ schema_template_fields' = done.rows
            /\ answer' = Response("create_schema_template_field", done.status)
            /\ UNCHANGED <<meta, field_definitions, items, inflight, securityVars, communityVars>>

\* PATCH /schema-templates/{template_id}/fields/{field_id}
UpdateSchemaTemplateField ==
    \E field_id \in 1..MaxId, payload \in UpdatePayloads :
        \E done \in { UpdateSchemaTemplateFieldOutcome(schema_template_fields,
                                                     field_id, payload) } :
            /\ schema_template_fields' = done.rows
            /\ answer' = Response("update_schema_template_field", done.status)
            /\ UNCHANGED <<meta, field_definitions, items, inflight, securityVars, communityVars>>

\* DELETE /schema-templates/{template_id}/fields/{field_id}
DeleteSchemaTemplateField ==
    \E field_id \in 1..MaxId :
        /\ schema_template_fields'
              = IF HasRow(schema_template_fields, field_id)
                THEN Without(schema_template_fields, field_id)
                ELSE schema_template_fields
        /\ answer' = Response("delete_schema_template_field",
                              IF HasRow(schema_template_fields, field_id)
                              THEN 200 ELSE 404)
        /\ UNCHANGED <<meta, field_definitions, items, inflight, securityVars, communityVars>>

\* PATCH /schema-templates/{template_id} with the key fields
UpdateSchemaTemplate ==
    \E payloads \in {<<>>} \cup { <<p>> : p \in CreatePayloads } :
        \E done \in { UpdateSchemaTemplateOutcome(schema_template_fields, payloads) } :
            /\ schema_template_fields' = done.rows
            /\ answer' = Response("update_schema_template", done.status)
            /\ UNCHANGED <<meta, field_definitions, items, inflight, securityVars, communityVars>>

\* POST /collections, with or without schema_template_id
CreateCollection ==
    /\ ~meta.collection
    /\ \E from_template \in BOOLEAN :
          field_definitions' = IF from_template THEN CopiedFields(schema_template_fields)
                               ELSE <<>>
    /\ meta' = Catalog(TRUE)
    /\ answer' = Response("create_collection", 201)
    /\ UNCHANGED <<schema_template_fields, items, inflight, securityVars, communityVars>>

\* POST /collections/{collection_id}/fields
CreateField ==
    /\ meta.collection
    /\ \E payload \in CreatePayloads :
          \E done \in { CreateFieldOutcome(field_definitions, payload) } :
              /\ NextId(field_definitions) <= MaxId
              /\ Len(done.rows) <= MaxRows
              /\ field_definitions' = done.rows
              /\ answer' = Response("create_field", done.status)
    /\ UNCHANGED <<meta, schema_template_fields, items, inflight, securityVars, communityVars>>

\* PATCH /collections/{collection_id}/fields/{field_id}
UpdateField ==
    /\ meta.collection
    /\ \E field_id \in 1..MaxId, payload \in UpdatePayloads :
          \E done \in { UpdateFieldOutcome(field_definitions, field_id, payload) } :
              /\ field_definitions' = done.rows
              /\ answer' = Response("update_field", done.status)
    /\ UNCHANGED <<meta, schema_template_fields, items, inflight, securityVars, communityVars>>

\* DELETE /collections/{collection_id}/fields/{field_id}
DeleteField ==
    /\ meta.collection
    /\ \E field_id \in 1..MaxId :
          \E done \in { DeleteFieldOutcome(field_definitions, items, field_id) } :
              /\ field_definitions' = done.rows
              /\ items' = done.items
              /\ answer' = Response("delete_field", done.status)
    /\ UNCHANGED <<meta, schema_template_fields, inflight, securityVars, communityVars>>

\* POST /collections/{collection_id}/items
CreateItem ==
    /\ meta.collection
    /\ \E metadata \in ItemDocuments :
          \E done \in { CreateItemOutcome(field_definitions, items, metadata) } :
              /\ NextId(items) <= MaxId
              /\ Len(done.rows) <= MaxItems
              /\ items' = done.rows
              /\ answer' = Response("create_item", done.status)
    /\ UNCHANGED <<meta, field_definitions, schema_template_fields, inflight,
                   securityVars, communityVars>>

\* PATCH /collections/{collection_id}/items/{item_id}
UpdateItem ==
    /\ meta.collection
    /\ \E item_id \in 1..MaxId, has_metadata \in BOOLEAN, metadata \in ItemDocuments :
          \E done \in { UpdateItemOutcome(field_definitions, items, item_id,
                                        has_metadata, metadata) } :
              /\ has_metadata \/ metadata = NoMetadata
              /\ items' = done.rows
              /\ answer' = Response("update_item", done.status)
    /\ UNCHANGED <<meta, field_definitions, schema_template_fields, inflight,
                   securityVars, communityVars>>

\* DELETE /collections/{collection_id}/items/{item_id}
DeleteItem ==
    /\ meta.collection
    /\ \E item_id \in 1..MaxId :
          /\ items' = IF HasRow(items, item_id) THEN Without(items, item_id) ELSE items
          /\ answer' = Response("delete_item",
                                IF HasRow(items, item_id) THEN 200 ELSE 404)
    /\ UNCHANGED <<meta, field_definitions, schema_template_fields, inflight,
                   securityVars, communityVars>>

NextSchema ==
    \/ CreateSchemaTemplateField
    \/ UpdateSchemaTemplateField
    \/ DeleteSchemaTemplateField
    \/ UpdateSchemaTemplate
    \/ CreateCollection
    \/ CreateField
    \/ UpdateField
    \/ DeleteField

SpecSchema == InitSchema /\ [][NextSchema]_vars

\* a collection made without a template, without fields and items yet
InitCatalog ==
    /\ meta = Catalog(TRUE)
    /\ field_definitions = <<>>
    /\ schema_template_fields = <<>>
    /\ items = <<>>
    /\ inflight = {}
    /\ answer = NoAnswer
    /\ now = StartNow
    /\ jwt_algorithm = "HS256"
    /\ token = NoToken
    /\ presented = <<>>
    /\ result = Idle
    /\ pw = NoPw
    /\ NoAuth
    /\ NoCommunity

NextCatalog ==
    \/ CreateField
    \/ UpdateField
    \/ DeleteField
    \/ CreateItem
    \/ UpdateItem
    \/ DeleteItem

SpecCatalog == InitCatalog /\ [][NextCatalog]_vars

(***************************************************************************)
(* Requests on the fields of one collection served at the same time: each  *)
(* handler runs up to its commit in a session of its own, and commits      *)
(* later, after other requests may have committed.                         *)
(***************************************************************************)
Clients == 1..MaxClients

\* a request that has passed its checks and has not committed yet
Request(client, handler, field_id, checked) ==
    [client |-> client, handler |-> handler, field_id |-> field_id,
     loaded |-> checked.loaded, field |-> checked.field, nulls |-> checked.nulls]

RaceCreatePayloads ==
    { FieldPayload(NameA, "text", FALSE, NoOptions),
      FieldPayload(NameB, "select", FALSE, Options(<< OptionA >>)) }

RaceUpdatePayloads ==
    { [name |-> name, field_type |-> KeyUnset, is_required |-> KeyUnset,
       is_private |-> KeyUnset, options |-> KeyUnset] :
        name \in { KeyName(NameA), KeyName(NameB) } }
    \cup { [name |-> KeyUnset, field_type |-> KeyType("text"), is_required |-> KeyUnset,
            is_private |-> KeyUnset, options |-> KeyUnset],
           [name |-> KeyUnset, field_type |-> KeyUnset, is_required |-> KeyUnset,
            is_private |-> KeyUnset, options |-> KeyOptions(<< OptionB >>)] }

\* the stage of the handler that gave the last answer
Race(stage) == [kind |-> "race", stage |-> stage]

InitRace ==
    /\ meta = Race("none")
    /\ field_definitions = <<>>
    /\ schema_template_fields = <<>>
    /\ items = <<>>
    /\ inflight = {}
    /\ answer = NoAnswer
    /\ now = StartNow
    /\ jwt_algorithm = "HS256"
    /\ token = NoToken
    /\ presented = <<>>
    /\ result = Idle
    /\ pw = NoPw
    /\ NoAuth
    /\ NoCommunity

Idling(client) == \A r \in inflight : r.client # client

\* create_field up to its commit: it raises 422 or 409, or goes on
BeginCreateField ==
    \E client \in Clients, payload \in RaceCreatePayloads :
        LET checked == CreateFieldChecked(field_definitions, payload)
        IN  /\ Idling(client)
            /\ IF checked.status # 200
               THEN /\ answer' = Response("create_field", checked.status)
                    /\ meta' = Race("check")
                    /\ UNCHANGED inflight
               ELSE /\ inflight' = inflight
                                   \cup { Request(client, "create_field", 0, checked) }
                    /\ UNCHANGED <<answer, meta>>
            /\ UNCHANGED <<field_definitions, schema_template_fields, items,
                           securityVars, communityVars>>

\* create_field from its commit on
CommitCreateField ==
    \E r \in inflight :
        LET done == Inserted(field_definitions, Row(NextId(field_definitions), r.field))
        IN  /\ r.handler = "create_field"
            /\ NextId(field_definitions) <= MaxId
            /\ Len(done.rows) <= MaxRows
            /\ field_definitions' = done.rows
            /\ inflight' = inflight \ {r}
            /\ answer' = Response("create_field", done.status)
            /\ meta' = Race("commit")
            /\ UNCHANGED <<schema_template_fields, items, securityVars, communityVars>>

\* update_field up to its commit: it raises 422, 404 or 409, or goes on
BeginUpdateField ==
    \E client \in Clients, field_id \in 1..MaxId, payload \in RaceUpdatePayloads :
        LET checked == UpdateFieldChecked(field_definitions, field_id, payload)
        IN  /\ Idling(client)
            /\ IF checked.status # 200
               THEN /\ answer' = Response("update_field", checked.status)
                    /\ meta' = Race("check")
                    /\ UNCHANGED inflight
               ELSE /\ inflight' = inflight
                                   \cup { Request(client, "update_field", field_id, checked) }
                    /\ UNCHANGED <<answer, meta>>
            /\ UNCHANGED <<field_definitions, schema_template_fields, items,
                           securityVars, communityVars>>

\* update_field from its commit on
CommitUpdateField ==
    \E r \in inflight :
        LET done == Updated(field_definitions, r.field_id, r.loaded, r.field, r.nulls)
        IN  /\ r.handler = "update_field"
            /\ field_definitions' = done.rows
            /\ inflight' = inflight \ {r}
            /\ answer' = Response("update_field", done.status)
            /\ meta' = Race("commit")
            /\ UNCHANGED <<schema_template_fields, items, securityVars, communityVars>>

NextRace ==
    \/ BeginCreateField
    \/ CommitCreateField
    \/ BeginUpdateField
    \/ CommitUpdateField

SpecRace == InitRace /\ [][NextRace]_vars

(***************************************************************************)
(* Requests to /auth/reset served at the same time: reset_password runs    *)
(* its checks in a session of its own and commits later, after other       *)
(* requests may have committed.                                            *)
(***************************************************************************)
\* reset_password, lines 277-298: the detail of the 400 it raises, "" when
\* it goes on to the write
ResetPasswordChecked(token_id) ==
    LET t == EmailTokenBy(token_id, "reset")
        email_token == email_tokens[t]
        user == DbGet(email_token.user_id)
    IN  IF t = 0 THEN "Invalid reset token"
        ELSE IF user = NoUser \/ ~user.is_active THEN "Invalid reset token"
        ELSE IF email_token.used_at # NoTime THEN "Reset token already used"
        ELSE IF email_token.expires_at <= now THEN "Reset token expired"
        ELSE ""

\* a reset request that has passed its checks and has not committed yet
ResetRequest(client, token_id, password) ==
    [client |-> client, handler |-> "reset_password", token_id |-> token_id,
     user_id |-> email_tokens[token_id].user_id, password |-> password]

\* a verified user with a password, a reset token that is good for one
\* more tick and one that has expired
InitReset ==
    /\ now = StartNow
    /\ jwt_algorithm = "HS256"
    /\ token = NoToken
    /\ presented = <<>>
    /\ result = Idle
    /\ pw = NoPw
    /\ settings = NoSettings
    /\ users = [id \in UserIds |->
                  IF id = 1
                  THEN [email |-> 1,
                        password_hash |-> HashPassword(<<112, 119>>,
                                                       CHOOSE x \in Salts : TRUE),
                        is_active |-> TRUE, is_verified |-> TRUE]
                  ELSE NoUser]
    /\ email_tokens = [t \in EmailTokenIds |->
                  IF t = 1
                  THEN [user_id |-> 1, token_type |-> "reset",
                        expires_at |-> now + ResetTtl, used_at |-> NoTime]
                  ELSE IF t = 2
                  THEN [user_id |-> 1, token_type |-> "reset",
                        expires_at |-> now, used_at |-> NoTime]
                  ELSE NoEmailToken]
    /\ held = {}
    /\ cookie = <<>>
    /\ resp = NoResp
    /\ meta = <<>>
    /\ field_definitions = <<>>
    /\ schema_template_fields = <<>>
    /\ items = <<>>
    /\ inflight = {}
    /\ answer = <<>>
    /\ NoCommunity

\* reset_password up to its write: it raises 400, or goes on
BeginResetPassword ==
    \E client \in Clients, token_id \in 0..MaxEmailTokens, password \in AuthPasswords :
        LET detail == ResetPasswordChecked(token_id)
        IN  /\ resp = NoResp
            /\ Idling(client)
            /\ IF detail # ""
               THEN /\ RespondToken("reset", 400, token_id, password, detail)
                    /\ UNCHANGED inflight
               ELSE /\ inflight' = inflight
                                   \cup { ResetRequest(client, token_id, password) }
                    /\ UNCHANGED resp
            /\ UNCHANGED <<meta, field_definitions, schema_template_fields, items,
                           answer, now, jwt_algorithm, token, presented, result, pw,
                           settings, users, email_tokens, held, cookie, communityVars>>

\* reset_password, lines 300-306: the write and the commit
CommitResetPassword ==
    \E r \in inflight :
        /\ resp = NoResp
        /\ users' = [users EXCEPT ![r.user_id].password_hash =
                         HashPassword(r.password, CHOOSE x \in Salts : TRUE)]
        /\ email_tokens' = [email_tokens EXCEPT ![r.token_id].used_at = now]
        /\ inflight' = inflight \ {r}
        /\ RespondToken("reset", 200, r.token_id, r.password,
                        "Password reset successful")
        /\ UNCHANGED <<meta, field_definitions, schema_template_fields, items,
                       answer, now, jwt_algorithm, token, presented, result, pw,
                       settings, held, cookie, communityVars>>

\* the client has read the response to its reset request
ResetReceived ==
    /\ resp # NoResp
    /\ resp' = NoResp
    /\ UNCHANGED <<communityVars, catalogVars, now, jwt_algorithm, token, presented, result, pw,
                   settings, users, email_tokens, held, cookie>>

NextReset ==
    \/ Tick
    \/ BeginResetPassword
    \/ CommitResetPassword
    \/ ResetReceived

SpecReset == InitReset /\ [][NextReset]_vars

(***************************************************************************)
(* The activity log (services/activity.py).  A row of activity_logs is     *)
(* [id, user_id, action_type, created_at]; created_at is the database's    *)
(* clock at the insert.  MAX_ACTIVITY_LOGS_PER_USER is 100 in the source   *)
(* and is scaled here to MaxActivityLogs, the way the lifetimes are scaled *)
(* to ticks.                                                               *)
(***************************************************************************)
MaxMembers == 2
MaxActivityLogs == 3
MaxLogId == 6

Members == 1..MaxMembers

MAX_ACTIVITY_LOGS_PER_USER == MaxActivityLogs

\* every variable of the account part at rest, no request in flight
InitQuiet ==
    /\ now = StartNow
    /\ jwt_algorithm = "HS256"
    /\ token = NoToken
    /\ presented = <<>>
    /\ result = Idle
    /\ pw = NoPw
    /\ settings = NoSettings
    /\ users = [id \in UserIds |-> NoUser]
    /\ email_tokens = [t \in EmailTokenIds |-> NoEmailToken]
    /\ held = {}
    /\ cookie = <<>>
    /\ resp = NoResp
    /\ inflight = {}
    /\ answer = <<>>

\* no collection has a field or an item, no template has a field
NoRows ==
    /\ meta = <<>>
    /\ field_definitions = <<>>
    /\ schema_template_fields = <<>>
    /\ items = <<>>

ActivityLog(id, user_id, action_type, created_at) ==
    [id |-> id, user_id |-> user_id, action_type |-> action_type,
     created_at |-> created_at]

\* order_by(ActivityLog.created_at.desc(), ActivityLog.id.desc()): a comes
\* before b
NewerLog(a, b) ==
    \/ a.created_at > b.created_at
    \/ a.created_at = b.created_at /\ a.id > b.id

\* the overflow query without its where(user_id == user_id)
OverflowIdsOfAnyUser(rows, user_id, cap) ==
    { rows[i].id : i \in { k \in 1..Len(rows) :
          Cardinality({ j \in 1..Len(rows) : NewerLog(rows[j], rows[k]) }) >= cap } }

\* select(ActivityLog.id).where(user_id == user_id).order_by(...).offset(cap)
OverflowIds(rows, user_id, cap) ==
    { rows[i].id : i \in { k \in 1..Len(rows) :
          /\ rows[k].user_id = user_id
          /\ Cardinality({ j \in 1..Len(rows) :
                             /\ rows[j].user_id = user_id
                             /\ NewerLog(rows[j], rows[k]) }) >= cap } }

\* delete(ActivityLog).where(ActivityLog.id.in_(overflow_ids))
DeleteLogs(rows, ids) == SelectSeq(rows, LAMBDA r : r.id \notin ids)

\* log_activity: the entry is added and flushed, then the rows of the user
\* beyond the newest MAX_ACTIVITY_LOGS_PER_USER are deleted
LogActivity(rows, user_id, action_type, t) ==
    LET flushed == Append(rows, ActivityLog(NextId(rows), user_id, action_type, t))
        overflow_ids == OverflowIds(flushed, user_id, MAX_ACTIVITY_LOGS_PER_USER)
    IN  IF overflow_ids = {} THEN flushed ELSE DeleteLogs(flushed, overflow_ids)

ActionTypes == {"collection.updated", "item.created"}

\* a handler that logs one action of its user and commits, as
\* update_collection and create_item do
LoggedAction(user_id, action_type) ==
    /\ NextId(activity_logs) <= MaxLogId
    /\ activity_logs' = LogActivity(activity_logs, user_id, action_type, now)
    /\ answer' = Response(action_type, 200)
    /\ UNCHANGED <<now, jwt_algorithm, token, presented, result, pw, authVars,
                   meta, field_definitions, schema_template_fields, items,
                   inflight, collections, schema_templates, collection_stars>>

InitActivity ==
    /\ InitQuiet
    /\ NoRows
    /\ NoCommunity

NextActivity ==
    \/ Tick
    \/ \E user_id \in Members, action_type \in ActionTypes :
           LoggedAction(user_id, action_type)

SpecActivity == InitActivity /\ [][NextActivity]_vars

(***************************************************************************)
(* Collections and their stars (api/stars.py).  A row of collections is    *)
(* [id, owner_id, name, is_public, is_featured], a row of collection_stars *)
(* is [id, user_id, collection_id].  The caller of a handler is the user   *)
(* get_current_user has resolved.  A star or unstar request reads, writes  *)
(* and counts in three database round trips, and the requests of other     *)
(* clients may be served in between.                                       *)
(***************************************************************************)
MaxCollections == 2
MaxStarId == 3
MaxStarLogId == 3

CollectionIds == 1..MaxCollections

Collection(id, owner_id, name, is_public, is_featured) ==
    [id |-> id, owner_id |-> owner_id, name |-> name, is_public |-> is_public,
     is_featured |-> is_featured]

CollectionStar(id, user_id, collection_id) ==
    [id |-> id, user_id |-> user_id, collection_id |-> collection_id]

\* select(Collection).where(id == collection_id,
\*                          or_(owner_id == user_id, is_public.is_(True)))
GetCollectionForStar(rows, collection_id, user_id) ==
    { rows[i] : i \in { k \in 1..Len(rows) :
          /\ rows[k].id = collection_id
          /\ rows[k].owner_id = user_id \/ rows[k].is_public } }

\* select(CollectionStar).where(collection_id == ..., user_id == ...)
ExistingStars(rows, collection_id, user_id) ==
    { rows[i] : i \in { k \in 1..Len(rows) :
          rows[k].collection_id = collection_id /\ rows[k].user_id = user_id } }

\* select(func.count(CollectionStar.id)).where(collection_id == collection_id)
CollectionStarCount(rows, collection_id) ==
    Cardinality({ i \in 1..Len(rows) : rows[i].collection_id = collection_id })

\* db.add(star); db.flush() under uq_collection_stars_user_collection
AddStar(rows, user_id, collection_id) ==
    IF ExistingStars(rows, collection_id, user_id) # {}
    THEN [exc |-> "IntegrityError", rows |-> rows]
    ELSE [exc |-> "",
          rows |-> Append(rows, CollectionStar(NextId(rows), user_id, collection_id))]

\* db.delete(existing): the row with the id that was read, if it is still there
DeleteStar(rows, id) == SelectSeq(rows, LAMBDA r : r.id # id)

\* the two log_activity calls of star_collection
LogStarred(logs, user_id, owner_id, t) ==
    LET mine == LogActivity(logs, user_id, "collection.starred", t)
    IN  IF owner_id # user_id
        THEN LogActivity(mine, owner_id, "collection.starred", t)
        ELSE mine

StarRequest(client, handler, user_id, collection_id, existing, phase) ==
    [client |-> client, handler |-> handler, user_id |-> user_id,
     collection_id |-> collection_id, existing |-> existing, phase |-> phase]

StarStatusResponse(endpoint, status, collection_id, starred, star_count) ==
    [endpoint |-> endpoint, status |-> status, collection_id |-> collection_id,
     starred |-> starred, star_count |-> star_count]

\* star_collection and unstar_collection up to the read of the existing
\* star: 404, or the request goes on to its write or straight to the count
BeginStar(handler) ==
    \E client \in Clients, user_id \in Members, collection_id \in 1..(MaxCollections + 1) :
        LET found == GetCollectionForStar(collections, collection_id, user_id)
            existing == ExistingStars(collection_stars, collection_id, user_id)
            existing_id == IF existing = {} THEN 0
                           ELSE (CHOOSE star \in existing : TRUE).id
            writes == IF handler = "star_collection" THEN existing = {}
                      ELSE existing # {}
        IN  /\ Idling(client)
            /\ IF found = {}
               THEN /\ answer' = StarStatusResponse(handler, 404, collection_id, FALSE, 0)
                    /\ UNCHANGED inflight
               ELSE /\ inflight' = inflight \cup
                          { StarRequest(client, handler, user_id, collection_id, existing_id,
                                        IF writes THEN "write" ELSE "count") }
                    /\ UNCHANGED answer
            /\ UNCHANGED <<meta, field_definitions, schema_template_fields, items,
                           securityVars, communityVars>>

\* star_collection from db.add(star) to db.commit(): the flush raises
\* IntegrityError when the pair is already starred, and nothing is written
CommitStar ==
    \E r \in inflight :
        /\ r.handler = "star_collection"
        /\ r.phase = "write"
        /\ LET added == AddStar(collection_stars, r.user_id, r.collection_id)
               owner_id == RowOf(collections, r.collection_id).owner_id
           IN  IF added.exc # ""
               THEN /\ inflight' = inflight \ {r}
                    /\ answer' = StarStatusResponse(r.handler, 500, r.collection_id, FALSE, 0)
                    /\ UNCHANGED <<collection_stars, activity_logs>>
               ELSE /\ NextId(collection_stars) <= MaxStarId
                    /\ NextId(activity_logs) + (IF owner_id # r.user_id THEN 1 ELSE 0)
                           <= MaxStarLogId
                    /\ collection_stars' = added.rows
                    /\ activity_logs' = LogStarred(activity_logs, r.user_id, owner_id, now)
                    /\ inflight' = (inflight \ {r}) \cup {[r EXCEPT !.phase = "count"]}
                    /\ UNCHANGED answer
        /\ UNCHANGED <<meta, field_definitions, schema_template_fields, items,
                       securityVars, collections, schema_templates>>

\* unstar_collection: db.delete(existing); db.commit()
CommitUnstar ==
    \E r \in inflight :
        /\ r.handler = "unstar_collection"
        /\ r.phase = "write"
        /\ collection_stars' = DeleteStar(collection_stars, r.existing)
        /\ inflight' = (inflight \ {r}) \cup {[r EXCEPT !.phase = "count"]}
        /\ UNCHANGED <<meta, field_definitions, schema_template_fields, items, answer,
                       securityVars, collections, schema_templates, activity_logs>>

\* the count query and the response of either handler
CountStars ==
    \E r \in inflight :
        /\ r.phase = "count"
        /\ inflight' = inflight \ {r}
        /\ answer' = StarStatusResponse(r.handler, 200, r.collection_id,
                                        r.handler = "star_collection",
                                        CollectionStarCount(collection_stars,
                                                            r.collection_id))
        /\ UNCHANGED <<meta, field_definitions, schema_template_fields, items,
                       securityVars, communityVars>>

\* collection 1 is public and belongs to user 1, collection 2 is private and
\* belongs to user 2
InitStars ==
    /\ InitQuiet
    /\ NoRows
    /\ collections = <<Collection(1, 1, 1, TRUE, FALSE), Collection(2, 2, 2, FALSE, FALSE)>>
    /\ schema_templates = <<>>
    /\ collection_stars = <<>>
    /\ activity_logs = <<>>

NextStars ==
    \/ BeginStar("star_collection")
    \/ BeginStar("unstar_collection")
    \/ CommitStar
    \/ CommitUnstar
    \/ CountStars

SpecStars == InitStars /\ [][NextStars]_vars

(***************************************************************************)
(* The featured collection (api/admin.py, api/collections.py).  In this    *)
(* part a row of items is [id, collection_id, is_draft, is_featured,       *)
(* created_at]: the flags the feature handlers read and write.  The admin  *)
(* handlers run behind get_admin_subject and _require_admin_config, taken  *)
(* as passed.  set_featured_collection reads the collection and tests      *)
(* is_public, then writes; other requests may be served in between.        *)
(***************************************************************************)
MaxUpdateLogId == 2
MaxFlagItems == 3
FeaturedLimit == 4

FlagItem(id, collection_id, is_draft, is_featured, created_at) ==
    [id |-> id, collection_id |-> collection_id, is_draft |-> is_draft,
     is_featured |-> is_featured, created_at |-> created_at]

\* update(Collection).values(is_featured=False)
ClearFeaturedCollections(rows) ==
    [i \in 1..Len(rows) |-> [rows[i] EXCEPT !.is_featured = FALSE]]

\* update(Item).values(is_featured=False)
ClearFeaturedItems(stored_items) ==
    [i \in 1..Len(stored_items) |-> [stored_items[i] EXCEPT !.is_featured = FALSE]]

\* order_by(Item.created_at.desc(), Item.id.desc()): a comes before b
NewerItem(a, b) ==
    \/ a.created_at > b.created_at
    \/ a.created_at = b.created_at /\ a.id > b.id

\* select(Item).where(collection_id == ..., is_draft.is_(False))
\*     .order_by(created_at.desc(), id.desc()).limit(4), as a set of ids
NewestPublished(stored_items, collection_id) ==
    LET published == { i \in 1..Len(stored_items) :
                          /\ stored_items[i].collection_id = collection_id
                          /\ ~stored_items[i].is_draft }
    IN  { stored_items[i].id : i \in { k \in published :
              Cardinality({ j \in published :
                              NewerItem(stored_items[j], stored_items[k]) })
                  < FeaturedLimit } }

MarkFeaturedItems(stored_items, ids) ==
    [i \in 1..Len(stored_items) |->
        IF stored_items[i].id \in ids
        THEN [stored_items[i] EXCEPT !.is_featured = TRUE]
        ELSE stored_items[i]]

\* set_featured_collection, lines 443-462: every flag is cleared, then the
\* collection and its newest published items are flagged
FeatureCollection(rows, collection_id) ==
    [i \in 1..Len(rows) |->
        [rows[i] EXCEPT !.is_featured = (rows[i].id = collection_id)]]

FeatureRequest(client, collection_id) ==
    [client |-> client, handler |-> "set_featured_collection",
     collection_id |-> collection_id]

\* POST /admin/featured with collection_id null
ClearFeatured ==
    /\ collections' = ClearFeaturedCollections(collections)
    /\ items' = ClearFeaturedItems(items)
    /\ answer' = Response("set_featured_collection", 200)
    /\ UNCHANGED <<meta, field_definitions, schema_template_fields, inflight,
                   securityVars, schema_templates, collection_stars, activity_logs>>

\* set_featured_collection up to its checks: 404, 422, or it goes on
BeginSetFeatured ==
    \E client \in Clients, collection_id \in 1..(MaxCollections + 1) :
        /\ Idling(client)
        /\ IF ~HasRow(collections, collection_id)
           THEN /\ answer' = Response("set_featured_collection", 404)
                /\ UNCHANGED inflight
           ELSE IF ~RowOf(collections, collection_id).is_public
           THEN /\ answer' = Response("set_featured_collection", 422)
                /\ UNCHANGED inflight
           ELSE /\ inflight' = inflight \cup { FeatureRequest(client, collection_id) }
                /\ UNCHANGED answer
        /\ UNCHANGED <<meta, field_definitions, schema_template_fields, items,
                       securityVars, communityVars>>

\* set_featured_collection from the two updates to the commit
CommitSetFeatured ==
    \E r \in inflight :
        /\ r.handler = "set_featured_collection"
        /\ collections' = FeatureCollection(collections, r.collection_id)
        /\ items' = MarkFeaturedItems(ClearFeaturedItems(items),
                                      NewestPublished(items, r.collection_id))
        /\ inflight' = inflight \ {r}
        /\ answer' = Response("set_featured_collection", 200)
        /\ UNCHANGED <<meta, field_definitions, schema_template_fields,
                       securityVars, schema_templates, collection_stars, activity_logs>>

\* select(Collection.id).where(Collection.is_featured.is_(True))
FeaturedIds(rows) ==
    { rows[i].id : i \in { k \in 1..Len(rows) : rows[k].is_featured } }

\* POST /admin/featured/items
SetFeaturedItems ==
    \E item_ids \in SUBSET (1..MaxFlagItems) :
        LET featured == FeaturedIds(collections)
            collection_id == CHOOSE id \in featured : TRUE
            valid_ids == { items[i].id : i \in { k \in 1..Len(items) :
                              /\ items[k].collection_id = collection_id
                              /\ ~items[k].is_draft
                              /\ items[k].id \in item_ids } }
        IN  /\ Cardinality(featured) <= 1
            /\ IF featured = {}
               THEN /\ answer' = Response("set_featured_items", 422)
                    /\ UNCHANGED items
               ELSE IF valid_ids # item_ids
               THEN /\ answer' = Response("set_featured_items", 404)
                    /\ UNCHANGED items
               ELSE /\ items' = [i \in 1..Len(items) |->
                                   IF items[i].id \in item_ids
                                   THEN [items[i] EXCEPT !.is_featured = TRUE]
                                   ELSE IF items[i].collection_id = collection_id
                                   THEN [items[i] EXCEPT !.is_featured = FALSE]
                                   ELSE items[i]]
                    /\ answer' = Response("set_featured_items", 200)
            /\ UNCHANGED <<meta, field_definitions, schema_template_fields, inflight,
                           securityVars, communityVars>>

\* the client has read the response; requests are served one at a time
AnswerReceived ==
    /\ answer # <<>>
    /\ answer' = <<>>
    /\ UNCHANGED <<meta, field_definitions, schema_template_fields, items, inflight,
                   securityVars, communityVars>>

\* the answer to a request: who asked, and the ids of its path
OwnedResponse(endpoint, status, user_id, parent_id, child_id) ==
    [endpoint |-> endpoint, status |-> status, user_id |-> user_id,
     parent_id |-> parent_id, child_id |-> child_id]

\* _get_collection_or_404 without its where(owner_id == owner_id)
HasCollectionOfAnyone(rows, collection_id, owner_id) ==
    \E i \in 1..Len(rows) : rows[i].id = collection_id

\* select(Collection).where(id == collection_id, owner_id == owner_id)
OwnsCollection(rows, collection_id, owner_id) ==
    \E i \in 1..Len(rows) : rows[i].id = collection_id /\ rows[i].owner_id = owner_id

\* the bodies of PATCH /collections/{collection_id}: the keys that are set
CollectionUpdates ==
    { <<>>, <<<<"is_public", TRUE>>>>, <<<<"is_public", FALSE>>>>, <<<<"name", 3>>>> }

\* update_collection, lines 240-245, on the row it has loaded
ApplyCollectionUpdate(row, data) ==
    IF data = <<>> THEN row
    ELSE IF data[1][1] = "name" THEN [row EXCEPT !.name = data[1][2]]
    ELSE [row EXCEPT !.is_public = data[1][2]]

\* PATCH /collections/{collection_id}
UpdateCollection ==
    /\ answer = <<>>
    /\ \E user_id \in Members, collection_id \in 1..(MaxCollections + 1),
       data \in CollectionUpdates :
        /\ IF ~OwnsCollection(collections, collection_id, user_id)
           THEN /\ answer' = OwnedResponse("update_collection", 404, user_id,
                                           collection_id, 0)
                /\ UNCHANGED <<collections, activity_logs>>
           ELSE /\ collections' = [i \in 1..Len(collections) |->
                                      IF collections[i].id = collection_id
                                      THEN ApplyCollectionUpdate(collections[i], data)
                                      ELSE collections[i]]
                /\ IF data # <<>>
                   THEN /\ NextId(activity_logs) <= MaxUpdateLogId
                        /\ activity_logs' = LogActivity(activity_logs, user_id,
                                                        "collection.updated", now)
                   ELSE UNCHANGED activity_logs
                /\ answer' = OwnedResponse("update_collection", 200, user_id,
                                           collection_id, 0)
        /\ UNCHANGED <<meta, field_definitions, schema_template_fields, items, inflight,
                       securityVars, schema_templates, collection_stars>>

\* two public collections of two owners, one published item in the first,
\* one published item and one draft in the second
InitFeatured ==
    /\ InitQuiet
    /\ meta = <<>>
    /\ field_definitions = <<>>
    /\ schema_template_fields = <<>>
    /\ items = <<FlagItem(1, 1, FALSE, FALSE, StartNow),
                 FlagItem(2, 2, FALSE, FALSE, StartNow),
                 FlagItem(3, 2, TRUE, FALSE, StartNow)>>
    /\ collections = <<Collection(1, 1, 1, TRUE, FALSE), Collection(2, 2, 2, TRUE, FALSE)>>
    /\ schema_templates = <<>>
    /\ collection_stars = <<>>
    /\ activity_logs = <<>>

NextFeatured ==
    \/ ClearFeatured
    \/ BeginSetFeatured
    \/ CommitSetFeatured
    \/ SetFeaturedItems
    \/ UpdateCollection
    \/ AnswerReceived

SpecFeatured == InitFeatured /\ [][NextFeatured]_vars

(***************************************************************************)
(* The public item endpoints (api/items.py).  In this part a row of items  *)
(* is [id, collection_id, name, created_at, metadata_] and                 *)
(* field_definitions holds the fields of collection 1.  meta holds a       *)
(* second copy of the items, equal to the first but for the values under   *)
(* the private fields; every request is answered from both copies.         *)
(***************************************************************************)
MaxPublicItems == 2

PublicItem(id, collection_id, name, created_at, metadata) ==
    [id |-> id, collection_id |-> collection_id, name |-> name,
     created_at |-> created_at, metadata_ |-> metadata]

\* select(Collection).where(id == collection_id, is_public.is_(True))
HasPublicCollection(rows, collection_id) ==
    \E i \in 1..Len(rows) : rows[i].id = collection_id /\ rows[i].is_public

\* the list of the fields without its test of is_private
EveryField(definitions) == definitions

\* [field for field in field_definitions if not field.is_private]
PublicFieldsOf(definitions) == SelectSeq(definitions, LAMBDA field : ~field.is_private)

\* _filter_public_metadata; public_fields is the list of the public fields
FilterPublicMetadata(metadata, public_fields) ==
    LET names == { public_fields[i].name : i \in 1..Len(public_fields) }
        filtered == SelectSeq(metadata.pairs, LAMBDA pair : pair[1] \in names)
    IN  IF metadata.kind # "map" \/ Len(metadata.pairs) = 0 THEN NoMetadata
        ELSE IF Len(filtered) = 0 THEN NoMetadata
        ELSE Mapping(filtered)

\* json_extract(Item.metadata_, '$."field"'): NULL when the key is absent
MetadataExpr(item, field_name) ==
    IF item.metadata_.kind = "map" /\ HasKey(item.metadata_.pairs, field_name)
    THEN ValueOf(item.metadata_.pairs, field_name)
    ELSE VNone

\* the where clauses of the filters hold for the item
Selected(item, where) ==
    \A i \in 1..Len(where) :
        /\ MetadataExpr(item, where[i].field) # VNone
        /\ MetadataExpr(item, where[i].field) = where[i].value

\* text a sorts before text b
TextBefore(a, b) ==
    \E i \in 1..(Len(b)) :
        /\ \A j \in 1..(i - 1) : j <= Len(a) /\ a[j] = b[j]
        /\ i > Len(a) \/ a[i] < b[i]

\* the order of the database on what json_extract returns: NULL, then
\* numbers, then text
ValueBefore(x, y) ==
    LET class(v) == IF v.t = "none" THEN 0 ELSE IF v.t \in {"int", "float", "bool"} THEN 1
                    ELSE 2
    IN  \/ class(x) < class(y)
        \/ class(x) = 1 /\ class(y) = 1 /\ x.n < y.n
        \/ class(x) = 2 /\ class(y) = 2 /\ TextBefore(x.s, y.s)

\* what the order_by sorts an item by
SortValue(item, order_by) ==
    IF order_by.column = "name" THEN VStr(item.name)
    ELSE IF order_by.column = "created_at" THEN VInt(item.created_at)
    ELSE MetadataExpr(item, order_by.field)

\* order_by(sort_expr, Item.id.desc()): a comes before b
ItemBefore(a, b, order_by) ==
    LET x == SortValue(a, order_by)
        y == SortValue(b, order_by)
    IN  \/ IF order_by.descending THEN ValueBefore(y, x) ELSE ValueBefore(x, y)
        \/ ~ValueBefore(x, y) /\ ~ValueBefore(y, x) /\ a.id > b.id

\* the rows of a query in its order
Ordered(rows, order_by) ==
    LET n == Len(rows)
        place(i) == 1 + Cardinality({ j \in 1..n : ItemBefore(rows[j], rows[i], order_by) })
    IN  [p \in 1..n |-> rows[CHOOSE i \in 1..n : place(i) = p]]

PublicResponse(status, rows) == [status |-> status, items |-> rows]

\* list_public_items from the query on: the rows selected and ordered, each
\* with its metadata filtered
PublicListed(found, filtered, sorted, stored_items, collection_id, public_fields) ==
    IF ~found THEN PublicResponse(404, <<>>)
    ELSE IF filtered.status # 200 THEN PublicResponse(filtered.status, <<>>)
    ELSE IF sorted.status # 200 THEN PublicResponse(sorted.status, <<>>)
    ELSE LET rows == SelectSeq(stored_items,
                               LAMBDA item : /\ item.collection_id = collection_id
                                             /\ Selected(item, filtered.where))
             listed == Ordered(rows, sorted)
         IN  PublicResponse(200,
                 [i \in 1..Len(listed) |->
                     [listed[i] EXCEPT !.metadata_ =
                          FilterPublicMetadata(@, public_fields)]])

\* list_public_items from field_by_name on
PublicQueried(found, field_by_name, loaded, stored_items, collection_id, filters, sort, public_fields) ==
    PublicListed(found, ApplyItemFilters(filters, field_by_name),
                 ApplyItemSort(sort, field_by_name, loaded),
                 stored_items, collection_id, public_fields)

\* list_public_items from public_fields on
PublicLoaded(found, public_fields, loaded, stored_items, collection_id, filters, sort) ==
    PublicQueried(found, IF loaded THEN FieldByName(public_fields) ELSE <<>>, loaded,
                  stored_items, collection_id, filters, sort, public_fields)

\* list_public_items with search, offset and limit left at their defaults
ListPublicItemsOutcome(collection_rows, definitions, stored_items, collection_id, filters, sort) ==
    PublicLoaded(HasPublicCollection(collection_rows, collection_id),
                 PublicFieldsOf(definitions),
                 Len(filters) > 0 \/ SortRequiresFieldDefinitions(sort),
                 stored_items, collection_id, filters, sort)

\* get_public_item
GetPublicItemOutcome(collection_rows, definitions, stored_items, collection_id, item_id) ==
    LET found == SelectSeq(stored_items,
                           LAMBDA item : /\ item.id = item_id
                                         /\ item.collection_id = collection_id)
    IN  IF Len(found) = 0 \/ ~HasPublicCollection(collection_rows, collection_id)
        THEN PublicResponse(404, <<>>)
        ELSE PublicResponse(200,
                 << [found[1] EXCEPT !.metadata_ =
                         FilterPublicMetadata(@, PublicFieldsOf(definitions))] >>)

\* the answer to a public request, from the items and from their copy
PublicAnswer(endpoint, filters, sort, first, second) ==
    [endpoint |-> endpoint, status |-> first.status, filters |-> filters,
     sort |-> sort, items |-> first.items, twin |-> second]

OneDigit == <<53>>
PublicFilters ==
    { <<>>, << NameA \o <<Pad>> \o OneDigit >>, << NameB \o <<Pad>> \o NameA >>,
      << NameC \o <<Pad>> \o OneDigit >>,
      << NameA \o <<Pad>> \o OneDigit, NameB \o <<Pad>> \o NameA >> }

PublicSorts ==
    { NoSort, Sort(MetadataWord \o <<Colon>> \o NameA),
      Sort(<<Hyphen>> \o MetadataWord \o <<Colon>> \o NameA),
      Sort(MetadataWord \o <<Dot>> \o NameB), Sort(NameWord),
      Sort(<<Hyphen>> \o CreatedAtWord) }

\* GET /public/collections/{collection_id}/items
ListPublicItems ==
    \E collection_id \in CollectionIds, filters \in PublicFilters, sort \in PublicSorts :
        /\ answer = <<>>
        /\ \E listed \in { [stored \in {items, meta.twin} |->
                                ListPublicItemsOutcome(
                                    collections, GetFieldDefinitions(field_definitions),
                                    stored, collection_id, filters, sort)] } :
               answer' = PublicAnswer("list_public_items", filters, sort,
                                      listed[items], listed[meta.twin])
        /\ UNCHANGED <<meta, field_definitions, schema_template_fields, items, inflight,
                       securityVars, communityVars>>

\* GET /public/collections/{collection_id}/items/{item_id}
GetPublicItem ==
    \E collection_id \in CollectionIds, item_id \in 1..(MaxPublicItems + 1) :
        /\ answer = <<>>
        /\ \E got \in { [stored \in {items, meta.twin} |->
                             GetPublicItemOutcome(
                                 collections, GetFieldDefinitions(field_definitions),
                                 stored, collection_id, item_id)] } :
               answer' = PublicAnswer("get_public_item", <<>>, NoSort,
                                      got[items], got[meta.twin])
        /\ UNCHANGED <<meta, field_definitions, schema_template_fields, items, inflight,
                       securityVars, communityVars>>

\* the metadata of an item: a number or nothing under a, a text or nothing
\* under b
PublicDocuments ==
    { IF Len(pairs) = 0 THEN NoMetadata ELSE Mapping(pairs) :
        pairs \in { a \o b : a \in { <<>>, << <<NameA, VInt(1)>> >>, << <<NameA, VInt(2)>> >> },
                             b \in { <<>>, << <<NameB, VStr(NameA)>> >> } } }

\* metadata and its copy differ at most under the private fields
SameButPrivate(metadata, copy, definitions) ==
    FilterPublicMetadata(metadata, PublicFieldsOf(definitions))
        = FilterPublicMetadata(copy, PublicFieldsOf(definitions))

\* collection 1 is public with the fields a (number) and b (text), each
\* private or not, and MaxPublicItems items; collection 2 is private
InitPublic ==
    /\ InitQuiet
    /\ collections = <<Collection(1, 1, 1, TRUE, FALSE), Collection(2, 2, 2, FALSE, FALSE)>>
    /\ schema_templates = <<>>
    /\ collection_stars = <<>>
    /\ activity_logs = <<>>
    /\ schema_template_fields = <<>>
    /\ \E a_private, b_private \in BOOLEAN :
           field_definitions =
               << Row(1, [FieldDefinition(NameA, "number", FALSE, NoOptions)
                              EXCEPT !.is_private = a_private]),
                  Row(2, [FieldDefinition(NameB, "text", FALSE, NoOptions)
                              EXCEPT !.is_private = b_private]) >>
    /\ \E documents, copies \in [1..MaxPublicItems -> PublicDocuments] :
           /\ \A i \in 1..MaxPublicItems :
                  SameButPrivate(documents[i], copies[i],
                                 GetFieldDefinitions(field_definitions))
           /\ items = [i \in 1..MaxPublicItems |->
                          PublicItem(i, 1, <<27 - (i % 2)>>, StartNow, documents[i])]
           /\ meta = [twin |-> [i \in 1..MaxPublicItems |->
                          PublicItem(i, 1, <<27 - (i % 2)>>, StartNow, copies[i])]]

NextPublic ==
    \/ ListPublicItems
    \/ GetPublicItem
    \/ AnswerReceived

SpecPublic == InitPublic /\ [][NextPublic]_vars

(***************************************************************************)
(* The owner-scoped endpoints with more than one owner (api/collections.py,*)
(* api/fields.py, api/items.py, api/schema_templates.py).  In this part    *)
(* the tables hold the rows of every owner: a row of schema_templates is   *)
(* [id, owner_id, name], a row of schema_template_fields is                *)
(* [id, schema_template_id, field], a row of field_definitions is          *)
(* [id, collection_id, field] and a row of items is                        *)
(* [id, collection_id, metadata_].  user_id is the user get_current_user   *)
(* has resolved from the access token.  A handler finds the rows of the    *)
(* path with the where clauses of its lookups and then does what the       *)
(* single-owner part describes, on the rows of that collection or          *)
(* template.                                                               *)
(***************************************************************************)
MaxOwnedId == 3
MaxOwnedRows == 2
MaxOwnedItems == 1
MaxOwnedLogId == 2
LParen == 74
RParen == 75

SchemaTemplate(id, owner_id, name) == [id |-> id, owner_id |-> owner_id, name |-> name]

SchemaTemplateField(id, schema_template_id, field) ==
    [id |-> id, schema_template_id |-> schema_template_id, field |-> field]

CollectionField(id, collection_id, field) ==
    [id |-> id, collection_id |-> collection_id, field |-> field]

CollectionItem(id, collection_id, metadata) ==
    [id |-> id, collection_id |-> collection_id, metadata_ |-> metadata]

\* _get_template_or_404 without its where(owner_id == owner_id)
HasTemplateOfAnyone(rows, template_id, owner_id) ==
    \E i \in 1..Len(rows) : rows[i].id = template_id

\* _get_template_or_404 finds a row
HasTemplate(rows, template_id, owner_id) ==
    \E i \in 1..Len(rows) : rows[i].id = template_id /\ rows[i].owner_id = owner_id

\* _list_template_fields, as the rows [id, field] of the single-owner part
TemplateRows(table, template_id) ==
    LET mine == SelectSeq(table, LAMBDA r : r.schema_template_id = template_id)
    IN  [i \in 1..Len(mine) |-> Row(mine[i].id, mine[i].field)]

\* the rows of a template written back, each in its place, after an update
\* of one of them
WithTemplateRows(table, template_id, rows) ==
    [i \in 1..Len(table) |->
        IF table[i].schema_template_id = template_id
        THEN SchemaTemplateField(table[i].id, template_id, RowOf(rows, table[i].id).field)
        ELSE table[i]]

\* the delete of _replace_template_fields without its where clause
DeleteEveryTemplateField(table, template_id) == <<>>

\* what the database does with ondelete="CASCADE" when a parent row goes:
\* SQLite, the default database, deletes the child rows only under PRAGMA
\* foreign_keys, which session.py does not set and a build of SQLite may have
\* on by default; other databases delete them
OnDelete == {"cascade", "keep"}

\* delete(SchemaTemplateField).where(schema_template_id == template_id), and
\* the cascade of db.delete(template)
DeleteTemplateFields(table, template_id) ==
    SelectSeq(table, LAMBDA r : r.schema_template_id # template_id)

\* rows added to a table for the fields given, with the ids the database
\* gives them
AddTemplateFields(table, template_id, fields) ==
    table \o [i \in 1..Len(fields) |->
                 SchemaTemplateField(NextId(table) + i - 1, template_id, fields[i])]

\* _get_template_field_or_404 finds a row
HasTemplateField(templates, table, template_id, field_id, owner_id) ==
    \E i \in 1..Len(table) :
        /\ table[i].id = field_id
        /\ table[i].schema_template_id = template_id
        /\ HasTemplate(templates, table[i].schema_template_id, owner_id)

\* _schema_template_name_exists
SchemaTemplateNameExists(rows, owner_id, name) ==
    \E i \in 1..Len(rows) : rows[i].owner_id = owner_id /\ rows[i].name = name

CopyWord == <<2, 40, 41, 50>>

\* _build_unique_copy_name, its loop run up to MaxOwnedId
RECURSIVE CopyNameFrom(_, _, _, _)
CopyNameFrom(rows, owner_id, source_name, copy_index) ==
    LET candidate == source_name \o <<Space, LParen>> \o CopyWord \o <<Space>>
                         \o IntToStr(copy_index) \o <<RParen>>
    IN  IF ~SchemaTemplateNameExists(rows, owner_id, candidate) \/ copy_index > MaxOwnedId
        THEN candidate
        ELSE CopyNameFrom(rows, owner_id, source_name, copy_index + 1)

BuildUniqueCopyName(rows, owner_id, source_name) ==
    LET base_name == source_name \o <<Space, LParen>> \o CopyWord \o <<RParen>>
    IN  IF ~SchemaTemplateNameExists(rows, owner_id, base_name) THEN base_name
        ELSE CopyNameFrom(rows, owner_id, source_name, 2)

\* _normalize_template_name under the validators of the request models: a
\* key that is unset or null passes, a blank name is refused
TemplateNameValidated(name) ==
    IF name.kind # "value" THEN [status |-> 200, name |-> name]
    ELSE IF Len(Strip(name.s)) = 0 THEN [status |-> 422, name |-> name]
    ELSE [status |-> 200, name |-> KeyName(Strip(name.s))]

\* GET /schema-templates/{template_id}
GetSchemaTemplateBy ==
    /\ answer = <<>>
    /\ \E user_id \in Members, template_id \in 1..MaxOwnedId :
        /\ answer' = OwnedResponse("get_schema_template",
                                   IF HasTemplate(schema_templates, template_id, user_id)
                                   THEN 200 ELSE 404,
                                   user_id, template_id, 0)
        /\ UNCHANGED <<meta, field_definitions, schema_template_fields, items, inflight,
                       securityVars, communityVars>>

\* POST /schema-templates/{template_id}/copy
CopySchemaTemplateBy ==
    /\ answer = <<>>
    /\ \E user_id \in Members, template_id \in 1..MaxOwnedId,
       name \in {KeyUnset, KeyName(NameB), KeyName(<<Space>>)} :
        LET validated == TemplateNameValidated(name)
            source_template == RowOf(schema_templates, template_id)
            copy_name == IF validated.name.kind = "value" THEN validated.name.s
                         ELSE BuildUniqueCopyName(schema_templates, user_id,
                                                  source_template.name)
            copied_id == NextId(schema_templates)
            source_fields == TemplateRows(schema_template_fields, template_id)
        IN  /\ IF validated.status # 200
               THEN /\ answer' = OwnedResponse("copy_schema_template", 422, user_id,
                                               template_id, 0)
                    /\ UNCHANGED <<schema_templates, schema_template_fields, activity_logs>>
               ELSE IF ~HasTemplate(schema_templates, template_id, user_id)
               THEN /\ answer' = OwnedResponse("copy_schema_template", 404, user_id,
                                               template_id, 0)
                    /\ UNCHANGED <<schema_templates, schema_template_fields, activity_logs>>
               ELSE IF /\ validated.name.kind = "value"
                       /\ SchemaTemplateNameExists(schema_templates, user_id, copy_name)
               THEN /\ answer' = OwnedResponse("copy_schema_template", 409, user_id,
                                               template_id, 0)
                    /\ UNCHANGED <<schema_templates, schema_template_fields, activity_logs>>
               ELSE /\ copied_id <= MaxOwnedId
                    /\ NextId(schema_template_fields) + Len(source_fields) - 1 <= MaxOwnedRows
                    /\ NextId(activity_logs) <= MaxOwnedLogId
                    /\ schema_templates' = Append(schema_templates,
                                                  SchemaTemplate(copied_id, user_id, copy_name))
                    /\ schema_template_fields' =
                           AddTemplateFields(schema_template_fields, copied_id,
                                             GetFieldDefinitions(source_fields))
                    /\ activity_logs' = LogActivity(activity_logs, user_id,
                                                    "schema_template.copied", now)
                    /\ answer' = OwnedResponse("copy_schema_template", 201, user_id,
                                               template_id, copied_id)
            /\ UNCHANGED <<meta, field_definitions, items, inflight, securityVars,
                           collections, collection_stars>>

\* the bodies of PATCH /schema-templates/{template_id}: the keys name and
\* fields, each set or not
\* the field payloads of the requests
OwnedCreatePayloads == { FieldPayload(NameB, "text", FALSE, NoOptions) }

OwnedUpdatePayloads ==
    { [name |-> KeyName(NameB), field_type |-> KeyUnset, is_required |-> KeyUnset,
       is_private |-> KeyUnset, options |-> KeyUnset] }

TemplateUpdates ==
    { [name |-> name, has_fields |-> FALSE, fields |-> <<>>] :
        name \in {KeyUnset, KeyNull, KeyName(NameB)} }
    \cup { [name |-> KeyUnset, has_fields |-> TRUE, fields |-> fields] :
             fields \in {<<>>} \cup { <<p>> : p \in OwnedCreatePayloads } }

\* PATCH /schema-templates/{template_id}
UpdateSchemaTemplateBy ==
    /\ answer = <<>>
    /\ \E user_id \in Members, template_id \in 1..MaxOwnedId, request \in TemplateUpdates :
        LET name == TemplateNameValidated(request.name)
            validated == [i \in 1..Len(request.fields) |->
                             SchemaTemplateFieldCreateRequest(request.fields[i])]
            update_fields == [i \in 1..Len(request.fields) |-> validated[i].request]
            has_name_update == request.name.kind # "unset"
            template == RowOf(schema_templates, template_id)
            renames == has_name_update /\ name.name.s # template.name
            status ==
                IF \/ name.status # 200
                   \/ request.has_fields
                      /\ \/ \E i \in 1..Len(validated) : validated[i].status # 200
                         \/ ~ValidateUniqueFieldNamesOk(update_fields)
                THEN 422
                ELSE IF ~HasTemplate(schema_templates, template_id, user_id) THEN 404
                ELSE IF has_name_update /\ name.name.kind = "null" THEN 422
                ELSE IF /\ renames
                        /\ \E i \in 1..Len(schema_templates) :
                               /\ schema_templates[i].owner_id = user_id
                               /\ schema_templates[i].name = name.name.s
                               /\ schema_templates[i].id # template_id
                THEN 409
                ELSE 200
            fields == [i \in 1..Len(update_fields) |->
                          [FieldDefinition(update_fields[i].name, update_fields[i].field_type,
                                           update_fields[i].is_required,
                                           update_fields[i].options)
                              EXCEPT !.is_private = update_fields[i].is_private]]
        IN  /\ (~request.has_fields => request.fields = <<>>)
            /\ answer' = OwnedResponse("update_schema_template", status, user_id,
                                       template_id, 0)
            /\ IF status # 200
               THEN UNCHANGED <<schema_templates, schema_template_fields, activity_logs>>
               ELSE /\ schema_templates' =
                           [i \in 1..Len(schema_templates) |->
                               IF schema_templates[i].id = template_id /\ renames
                               THEN [schema_templates[i] EXCEPT !.name = name.name.s]
                               ELSE schema_templates[i]]
                    /\ IF request.has_fields
                       THEN LET kept == DeleteTemplateFields(schema_template_fields,
                                                             template_id)
                            IN  /\ NextId(kept) + Len(fields) - 1 <= MaxOwnedRows
                                /\ schema_template_fields' =
                                       AddTemplateFields(kept, template_id, fields)
                       ELSE UNCHANGED schema_template_fields
                    /\ IF has_name_update \/ request.has_fields
                       THEN /\ NextId(activity_logs) <= MaxOwnedLogId
                            /\ activity_logs' = LogActivity(activity_logs, user_id,
                                                            "schema_template.updated", now)
                       ELSE UNCHANGED activity_logs
            /\ UNCHANGED <<meta, field_definitions, items, inflight, securityVars,
                           collections, collection_stars>>

\* DELETE /schema-templates/{template_id}.  SchemaTemplate.fields is a
\* relationship with passive_deletes and the handler has not loaded it, so
\* db.delete(template) leaves the rows of the fields to the database
DeleteSchemaTemplateBy ==
    /\ answer = <<>>
    /\ \E user_id \in Members, template_id \in 1..MaxOwnedId, on_delete \in OnDelete :
        /\ IF ~HasTemplate(schema_templates, template_id, user_id)
           THEN /\ answer' = OwnedResponse("delete_schema_template", 404, user_id,
                                           template_id, 0)
                /\ UNCHANGED <<schema_templates, schema_template_fields, activity_logs>>
           ELSE /\ NextId(activity_logs) <= MaxOwnedLogId
                /\ activity_logs' = LogActivity(activity_logs, user_id,
                                                "schema_template.deleted", now)
                /\ schema_templates' = SelectSeq(schema_templates,
                                                 LAMBDA r : r.id # template_id)
                /\ schema_template_fields' =
                       IF on_delete = "cascade"
                       THEN DeleteTemplateFields(schema_template_fields, template_id)
                       ELSE schema_template_fields
                /\ answer' = OwnedResponse("delete_schema_template", 200, user_id,
                                           template_id, 0)
        /\ UNCHANGED <<meta, field_definitions, items, inflight, securityVars,
                       collections, collection_stars>>

\* POST /schema-templates/{template_id}/fields
CreateSchemaTemplateFieldBy ==
    /\ answer = <<>>
    /\ \E user_id \in Members, template_id \in 1..MaxOwnedId, payload \in OwnedCreatePayloads :
        \E done \in { CreateSchemaTemplateFieldOutcome(
                          TemplateRows(schema_template_fields, template_id), payload) } :
            LET status == IF done.status = 422 THEN 422
                          ELSE IF ~HasTemplate(schema_templates, template_id, user_id)
                          THEN 404 ELSE done.status
            IN  /\ answer' = OwnedResponse("create_schema_template_field", status,
                                           user_id, template_id, 0)
                /\ IF status \in {200, 201}
                   THEN /\ NextId(schema_template_fields) <= MaxOwnedRows
                        /\ schema_template_fields' =
                               AddTemplateFields(schema_template_fields, template_id,
                                                 << done.rows[Len(done.rows)].field >>)
                   ELSE UNCHANGED schema_template_fields
                /\ UNCHANGED <<meta, field_definitions, items, inflight, securityVars,
                               communityVars>>

\* PATCH /schema-templates/{template_id}/fields/{field_id}
UpdateSchemaTemplateFieldBy ==
    /\ answer = <<>>
    /\ \E user_id \in Members, template_id \in 1..MaxOwnedId, field_id \in 1..MaxOwnedRows,
       payload \in OwnedUpdatePayloads :
        LET validated == SchemaTemplateFieldUpdateRequest(payload)
            found == HasTemplateField(schema_templates, schema_template_fields,
                                      template_id, field_id, user_id)
        IN  IF validated.status # 200 \/ ~found
            THEN /\ answer' = OwnedResponse("update_schema_template_field",
                                            IF validated.status # 200 THEN 422 ELSE 404,
                                            user_id, template_id, field_id)
                 /\ UNCHANGED <<meta, field_definitions, schema_template_fields, items,
                                inflight, securityVars, communityVars>>
            ELSE \E done \in { UpdateSchemaTemplateFieldOutcome(
                                   TemplateRows(schema_template_fields, template_id),
                                   field_id, payload) } :
                     /\ schema_template_fields' =
                            WithTemplateRows(schema_template_fields, template_id, done.rows)
                     /\ answer' = OwnedResponse("update_schema_template_field",
                                                done.status, user_id, template_id, field_id)
                     /\ UNCHANGED <<meta, field_definitions, items, inflight,
                                    securityVars, communityVars>>

\* DELETE /schema-templates/{template_id}/fields/{field_id}
DeleteSchemaTemplateFieldBy ==
    /\ answer = <<>>
    /\ \E user_id \in Members, template_id \in 1..MaxOwnedId, field_id \in 1..MaxOwnedRows :
        LET found == HasTemplateField(schema_templates, schema_template_fields,
                                      template_id, field_id, user_id)
        IN  /\ schema_template_fields' =
                   IF found
                   THEN SelectSeq(schema_template_fields, LAMBDA r : r.id # field_id)
                   ELSE schema_template_fields
            /\ answer' = OwnedResponse("delete_schema_template_field",
                                       IF found THEN 200 ELSE 404,
                                       user_id, template_id, field_id)
            /\ UNCHANGED <<meta, field_definitions, items, inflight, securityVars,
                           communityVars>>

\* _get_field_or_404 finds a row
HasField(owned, table, collection_id, field_id, owner_id) ==
    \E i \in 1..Len(table) :
        /\ table[i].id = field_id
        /\ table[i].collection_id = collection_id
        /\ OwnsCollection(owned, table[i].collection_id, owner_id)

\* _get_item_or_404 finds a row
HasItem(owned, table, collection_id, item_id, owner_id) ==
    \E i \in 1..Len(table) :
        /\ table[i].id = item_id
        /\ table[i].collection_id = collection_id
        /\ OwnsCollection(owned, table[i].collection_id, owner_id)

\* the fields of a collection as the rows [id, field] of the single-owner
\* part, and such rows written back, each in its place
CollectionRows(table, collection_id) ==
    LET mine == SelectSeq(table, LAMBDA r : r.collection_id = collection_id)
    IN  [i \in 1..Len(mine) |-> Row(mine[i].id, mine[i].field)]

WithCollectionRows(table, collection_id, rows) ==
    [i \in 1..Len(table) |->
        IF table[i].collection_id = collection_id
        THEN CollectionField(table[i].id, collection_id, RowOf(rows, table[i].id).field)
        ELSE table[i]]

\* the items of a collection as the rows [id, metadata_] of the
\* single-owner part, and such rows written back, each in its place
CollectionItems(table, collection_id) ==
    LET mine == SelectSeq(table, LAMBDA r : r.collection_id = collection_id)
    IN  [i \in 1..Len(mine) |-> Item(mine[i].id, mine[i].metadata_)]

WithCollectionItems(table, collection_id, rows) ==
    [i \in 1..Len(table) |->
        IF table[i].collection_id = collection_id
        THEN CollectionItem(table[i].id, collection_id,
                            RowOf(rows, table[i].id).metadata_)
        ELSE table[i]]

\* GET /collections/{collection_id}
GetCollectionBy ==
    /\ answer = <<>>
    /\ \E user_id \in Members, collection_id \in 1..MaxOwnedId :
        /\ answer' = OwnedResponse("get_collection",
                                   IF OwnsCollection(collections, collection_id, user_id)
                                   THEN 200 ELSE 404,
                                   user_id, collection_id, 0)
        /\ UNCHANGED <<meta, field_definitions, schema_template_fields, items, inflight,
                       securityVars, communityVars>>

\* POST /collections, schema_template_id 0 standing for none
CreateCollectionBy ==
    /\ answer = <<>>
    /\ \E user_id \in Members, schema_template_id \in 0..MaxOwnedId :
        LET template_fields == TemplateRows(schema_template_fields, schema_template_id)
            collection_id == NextId(collections)
        IN  /\ IF /\ schema_template_id # 0
                  /\ ~HasTemplate(schema_templates, schema_template_id, user_id)
               THEN /\ answer' = OwnedResponse("create_collection", 404, user_id,
                                               schema_template_id, 0)
                    /\ UNCHANGED <<collections, field_definitions, activity_logs>>
               ELSE /\ collection_id <= MaxOwnedId
                    /\ NextId(field_definitions) + Len(template_fields) - 1 <= MaxOwnedRows
                    /\ NextId(activity_logs) <= MaxOwnedLogId
                    /\ collections' = Append(collections,
                                             Collection(collection_id, user_id, 3,
                                                        FALSE, FALSE))
                    /\ field_definitions' =
                           field_definitions \o
                           [i \in 1..Len(template_fields) |->
                               CollectionField(NextId(field_definitions) + i - 1,
                                               collection_id, template_fields[i].field)]
                    /\ activity_logs' = LogActivity(activity_logs, user_id,
                                                    "collection.created", now)
                    /\ answer' = OwnedResponse("create_collection", 201, user_id,
                                               schema_template_id, collection_id)
            /\ UNCHANGED <<meta, schema_template_fields, items, inflight, securityVars,
                           schema_templates, collection_stars>>

\* DELETE /collections/{collection_id}: the fields, the items and the stars
\* of the collection are left to the database
DeleteCollectionBy ==
    /\ answer = <<>>
    /\ \E user_id \in Members, collection_id \in 1..MaxOwnedId, on_delete \in OnDelete :
        /\ IF ~OwnsCollection(collections, collection_id, user_id)
           THEN /\ answer' = OwnedResponse("delete_collection", 404, user_id,
                                           collection_id, 0)
                /\ UNCHANGED <<collections, field_definitions, items, collection_stars,
                               activity_logs>>
           ELSE /\ NextId(activity_logs) <= MaxOwnedLogId
                /\ activity_logs' = LogActivity(activity_logs, user_id,
                                                "collection.deleted", now)
                /\ collections' = SelectSeq(collections, LAMBDA r : r.id # collection_id)
                /\ field_definitions' =
                       IF on_delete = "cascade"
                       THEN SelectSeq(field_definitions,
                                      LAMBDA r : r.collection_id # collection_id)
                       ELSE field_definitions
                /\ items' =
                       IF on_delete = "cascade"
                       THEN SelectSeq(items, LAMBDA r : r.collection_id # collection_id)
                       ELSE items
                /\ collection_stars' =
                       IF on_delete = "cascade"
                       THEN SelectSeq(collection_stars,
                                      LAMBDA r : r.collection_id # collection_id)
                       ELSE collection_stars
                /\ answer' = OwnedResponse("delete_collection", 200, user_id,
                                           collection_id, 0)
        /\ UNCHANGED <<meta, schema_template_fields, inflight, securityVars,
                       schema_templates>>

\* GET /collections/{collection_id}/fields
ListFieldsBy ==
    /\ answer = <<>>
    /\ \E user_id \in Members, collection_id \in 1..MaxOwnedId :
        /\ answer' = OwnedResponse("list_fields",
                                   IF OwnsCollection(collections, collection_id, user_id)
                                   THEN 200 ELSE 404,
                                   user_id, collection_id, 0)
        /\ UNCHANGED <<meta, field_definitions, schema_template_fields, items, inflight,
                       securityVars, communityVars>>

\* POST /collections/{collection_id}/fields
CreateFieldBy ==
    /\ answer = <<>>
    /\ \E user_id \in Members, collection_id \in 1..MaxOwnedId, payload \in OwnedCreatePayloads :
        \E done \in { CreateFieldOutcome(CollectionRows(field_definitions, collection_id),
                                         payload) } :
            LET status == IF FieldDefinitionCreateRequest(payload).status # 200 THEN 422
                          ELSE IF ~OwnsCollection(collections, collection_id, user_id)
                          THEN 404 ELSE done.status
            IN  /\ answer' = OwnedResponse("create_field", status, user_id,
                                           collection_id, 0)
                /\ IF status \in {200, 201}
                   THEN /\ NextId(field_definitions) <= MaxOwnedRows
                        /\ field_definitions' =
                               Append(field_definitions,
                                      CollectionField(NextId(field_definitions),
                                                      collection_id,
                                                      done.rows[Len(done.rows)].field))
                   ELSE UNCHANGED field_definitions
                /\ UNCHANGED <<meta, schema_template_fields, items, inflight,
                               securityVars, communityVars>>

\* PATCH /collections/{collection_id}/fields/{field_id}
UpdateFieldBy ==
    /\ answer = <<>>
    /\ \E user_id \in Members, collection_id \in 1..MaxOwnedId, field_id \in 1..MaxOwnedRows,
       payload \in OwnedUpdatePayloads :
        LET validated == FieldDefinitionUpdateRequest(payload)
            found == HasField(collections, field_definitions, collection_id, field_id,
                              user_id)
        IN  IF validated.status # 200 \/ ~found
            THEN /\ answer' = OwnedResponse("update_field",
                                            IF validated.status # 200 THEN 422 ELSE 404,
                                            user_id, collection_id, field_id)
                 /\ UNCHANGED <<meta, field_definitions, schema_template_fields, items,
                                inflight, securityVars, communityVars>>
            ELSE \E done \in { UpdateFieldOutcome(
                                   CollectionRows(field_definitions, collection_id),
                                   field_id, payload) } :
                     /\ field_definitions' =
                            WithCollectionRows(field_definitions, collection_id, done.rows)
                     /\ answer' = OwnedResponse("update_field", done.status, user_id,
                                                collection_id, field_id)
                     /\ UNCHANGED <<meta, schema_template_fields, items, inflight,
                                    securityVars, communityVars>>

\* DELETE /collections/{collection_id}/fields/{field_id}
DeleteFieldBy ==
    /\ answer = <<>>
    /\ \E user_id \in Members, collection_id \in 1..MaxOwnedId, field_id \in 1..MaxOwnedRows :
        LET found == HasField(collections, field_definitions, collection_id, field_id,
                              user_id)
        IN  /\ field_definitions' =
                   IF found THEN SelectSeq(field_definitions, LAMBDA r : r.id # field_id)
                   ELSE field_definitions
            /\ answer' = OwnedResponse("delete_field", IF found THEN 200 ELSE 404,
                                       user_id, collection_id, field_id)
            /\ UNCHANGED <<meta, schema_template_fields, items, inflight, securityVars,
                           communityVars>>

\* GET /collections/{collection_id}/items/{item_id}
GetItemBy ==
    /\ answer = <<>>
    /\ \E user_id \in Members, collection_id \in 1..MaxOwnedId, item_id \in 1..(MaxOwnedItems + 1) :
        /\ answer' = OwnedResponse("get_item",
                                   IF HasItem(collections, items, collection_id, item_id,
                                              user_id)
                                   THEN 200 ELSE 404,
                                   user_id, collection_id, item_id)
        /\ UNCHANGED <<meta, field_definitions, schema_template_fields, items, inflight,
                       securityVars, communityVars>>

OwnedDocuments == { Mapping(<< <<NameA, VStr(OptionB)>> >>) }

\* POST /collections/{collection_id}/items
CreateItemBy ==
    /\ answer = <<>>
    /\ \E user_id \in Members, collection_id \in 1..MaxOwnedId, metadata \in OwnedDocuments :
        IF ~OwnsCollection(collections, collection_id, user_id)
        THEN /\ answer' = OwnedResponse("create_item", 404, user_id, collection_id, 0)
             /\ UNCHANGED <<meta, field_definitions, schema_template_fields, items,
                            inflight, securityVars, communityVars>>
        ELSE \E done \in { CreateItemOutcome(
                               CollectionRows(field_definitions, collection_id),
                               CollectionItems(items, collection_id), metadata) } :
                 /\ answer' = OwnedResponse("create_item", done.status, user_id,
                                            collection_id, 0)
                 /\ IF done.status = 201
                    THEN /\ NextId(items) <= MaxOwnedItems
                         /\ items' = Append(items,
                                CollectionItem(NextId(items), collection_id,
                                               done.rows[Len(done.rows)].metadata_))
                    ELSE UNCHANGED items
                 /\ UNCHANGED <<meta, field_definitions, schema_template_fields,
                                inflight, securityVars, communityVars>>

\* PATCH /collections/{collection_id}/items/{item_id} with the key metadata
UpdateItemBy ==
    /\ answer = <<>>
    /\ \E user_id \in Members, collection_id \in 1..MaxOwnedId, item_id \in 1..(MaxOwnedItems + 1),
       metadata \in OwnedDocuments :
        IF ~HasItem(collections, items, collection_id, item_id, user_id)
        THEN /\ answer' = OwnedResponse("update_item", 404, user_id, collection_id,
                                        item_id)
             /\ UNCHANGED <<meta, field_definitions, schema_template_fields, items,
                            inflight, securityVars, communityVars>>
        ELSE \E done \in { UpdateItemOutcome(
                               CollectionRows(field_definitions, collection_id),
                               CollectionItems(items, collection_id), item_id, TRUE,
                               metadata) } :
                 /\ answer' = OwnedResponse("update_item", done.status, user_id,
                                            collection_id, item_id)
                 /\ items' = WithCollectionItems(items, collection_id, done.rows)
                 /\ UNCHANGED <<meta, field_definitions, schema_template_fields,
                                inflight, securityVars, communityVars>>

\* DELETE /collections/{collection_id}/items/{item_id}
DeleteItemBy ==
    /\ answer = <<>>
    /\ \E user_id \in Members, collection_id \in 1..MaxOwnedId, item_id \in 1..(MaxOwnedItems + 1) :
        LET found == HasItem(collections, items, collection_id, item_id, user_id)
        IN  /\ items' = IF found THEN SelectSeq(items, LAMBDA r : r.id # item_id)
                        ELSE items
            /\ answer' = OwnedResponse("delete_item", IF found THEN 200 ELSE 404,
                                       user_id, collection_id, item_id)
            /\ UNCHANGED <<meta, field_definitions, schema_template_fields, inflight,
                           securityVars, communityVars>>

\* user 1 owns template 1 with one field and collection 1 with one field
\* and one item; user 2 owns collection 2
InitOwned ==
    /\ InitQuiet
    /\ meta = <<>>
    /\ schema_templates = << SchemaTemplate(1, 1, NameA) >>
    /\ schema_template_fields =
           << SchemaTemplateField(1, 1, FieldDefinition(NameA, "text", FALSE, NoOptions)) >>
    /\ collections = << Collection(1, 1, 1, FALSE, FALSE), Collection(2, 2, 2, FALSE, FALSE) >>
    /\ field_definitions =
           << CollectionField(1, 1, FieldDefinition(NameA, "text", FALSE, NoOptions)) >>
    /\ items = << CollectionItem(1, 1, Mapping(<< <<NameA, VStr(OptionA)>> >>)) >>
    /\ collection_stars = <<>>
    /\ activity_logs = <<>>

\* the template endpoints and the creation of a collection from a template
NextTemplates ==
    \/ GetSchemaTemplateBy
    \/ CopySchemaTemplateBy
    \/ UpdateSchemaTemplateBy
    \/ DeleteSchemaTemplateBy
    \/ CreateSchemaTemplateFieldBy
    \/ UpdateSchemaTemplateFieldBy
    \/ DeleteSchemaTemplateFieldBy
    \/ CreateCollectionBy
    \/ AnswerReceived

SpecTemplates == InitOwned /\ [][NextTemplates]_vars

\* the owner-scoped endpoints of templates, collections, fields and items
NextOwned ==
    \/ GetSchemaTemplateBy
    \/ CopySchemaTemplateBy
    \/ UpdateSchemaTemplateBy
    \/ DeleteSchemaTemplateBy
    \/ GetCollectionBy
    \/ CreateCollectionBy
    \/ UpdateCollection
    \/ DeleteCollectionBy
    \/ ListFieldsBy
    \/ CreateFieldBy
    \/ UpdateFieldBy
    \/ DeleteFieldBy
    \/ GetItemBy
    \/ CreateItemBy
    \/ UpdateItemBy
    \/ DeleteItemBy
    \/ AnswerReceived

SpecOwned == InitOwned /\ [][NextOwned]_vars

(***************************************************************************)
(* Properties of decode_token.                                             *)
(***************************************************************************)
StepsBefore(steps, a, b) ==
    \A i \in 1..Len(steps) : steps[i] = b => \E j \in 1..(i - 1) : steps[j] = a

SignatureValid(str) ==
    LET segs == Split(str, Dot) IN
    /\ Len(segs) = 3
    /\ IsAscii(str)
    /\ B64urlDecode(segs[3]).exc = "none"
    /\ B64urlDecode(segs[3]).bytes = Hmac(JwtSecret, segs[1] \o <<Dot>> \o segs[2])

\* C1: decode_token returns a claim map only for a three-segment string
\* whose signature segment decodes to the HMAC, under the server secret, of
\* its own header and payload segments, and fails for every other string;
\* whenever it parses the header or the payload or reads a claim, the
\* signature comparison ran before and succeeded.
C1_SignatureFirst ==
    result # Idle =>
        /\ result.exc = "none" => SignatureValid(presented)
        /\ ~SignatureValid(presented) => result.exc # "none"
        /\ \A st \in {"parse_header", "parse_payload", "read_alg", "read_exp", "return"} :
              /\ StepsBefore(result.steps, "compare_digest", st)
              /\ (\E i \in 1..Len(result.steps) : result.steps[i] = st)
                    => SignatureValid(presented)

C1_Witness ==
    /\ result.exc = "none"
    /\ token # NoToken
    /\ presented = token.tok
    /\ \E i \in 1..Len(result.steps) : result.steps[i] = "compare_digest"

\* C2 as stated: a token issued with any ttl > 0 decodes at the moment of
\* issue, with sub and type as given.
C2_AnyPositiveTtl ==
    (token # NoToken /\ token.extra = <<>> /\ token.ttl > 0 /\ token.at = now) =>
        LET r == DecodeToken(token.tok, jwt_algorithm, now) IN
        /\ r.exc = "none"
        /\ DictGet(r.claims, "sub") = token.sub
        /\ DictGet(r.claims, "type") = token.kind

\* C2, amended: a token issued with a ttl of at least one whole second
\* decodes at the moment of issue, with sub and type as given.
C2_RoundTrip ==
    (token # NoToken /\ token.extra = <<>> /\ token.ttl >= TicksPerSec
        /\ token.at = now) =>
        LET r == DecodeToken(token.tok, jwt_algorithm, now) IN
        /\ r.exc = "none"
        /\ DictGet(r.claims, "sub") = token.sub
        /\ DictGet(r.claims, "type") = token.kind

C2_Witness ==
    /\ token # NoToken
    /\ token.extra = <<>>
    /\ token.ttl >= TicksPerSec
    /\ token.at = now
    /\ presented = token.tok
    /\ result.exc = "none"
    /\ DictGet(result.claims, "sub") = token.sub

\* the exp claim that the issue of the token under study wrote
IssuedExp == UnixSeconds(token.at + token.ttl)

\* C3: a correctly signed token with exp claim E is rejected at every time
\* now >= E in whole seconds and is not rejected for expiry at any time
\* now < E; a token issued with a negative ttl is rejected at once; and a
\* token rejected at one time is rejected at every later time.  Stated of
\* the token under study at the current and every later clock value, in the
\* states between two calls (each clock value and token occur in one).
C3_Expiry ==
    (token # NoToken /\ result = Idle) =>
        /\ \A t \in now..(MaxNow + TicksPerSec) :
              LET r == DecodeToken(token.tok, jwt_algorithm, t) IN
              /\ UnixSeconds(t) >= IssuedExp => r.exc = "TokenError"
              /\ UnixSeconds(t) < IssuedExp => r.exc = "none"
              /\ DecodeToken(token.tok, jwt_algorithm, now).exc # "none"
                    => r.exc # "none"
        /\ (token.ttl < 0 /\ token.at = now) =>
              DecodeToken(token.tok, jwt_algorithm, now).exc = "TokenError"

C3_Witness ==
    /\ token # NoToken
    /\ token.ttl > 0
    /\ now > token.at
    /\ presented = token.tok
    /\ result.msg = "Token expired"

\* C4: whatever string it is given, decode_token returns a claim map or
\* raises TokenError, and raises no other exception.
C4_OnlyTokenError == result.exc \in {"idle", "none", "TokenError"}

\* str is the token under study with one character of its signature
\* segment replaced by a different one
IsSigTamper(str) ==
    /\ token # NoToken
    /\ Len(str) = Len(token.tok)
    /\ \E pos \in SigStart(token.tok)..Len(token.tok) :
          /\ str[pos] # token.tok[pos]
          /\ \A i \in 1..Len(str) : i # pos => str[i] = token.tok[i]

\* C5: a token with one character of its signature segment replaced by a
\* different character is rejected by decode_token.
C5_TamperRejected ==
    (result # Idle /\ IsSigTamper(presented)) => result.exc # "none"

(***************************************************************************)
(* Properties of the call sites.  A response record names the token that   *)
(* was presented when it is one a client holds: such a token is validly    *)
(* signed, and it is unexpired while the clock is before its exp.          *)
(***************************************************************************)
Unexpired(rec) == UnixSeconds(now) < rec.exp

\* a request is answered in this step
Answered == resp = NoResp /\ resp' # NoResp

\* the request got past the authentication of its endpoint
Accepted(r) == r.status \in {200, 404}

ServerUnchanged == UNCHANGED <<users, email_tokens, settings>>

UserEndpoints == {"me", "delete_me"}
AdminEndpoints == {"admin_stats", "admin_lock"}

\* the kind of token the endpoint of response r takes
RightKind(r) ==
    IF r.endpoint \in UserEndpoints THEN r.rec.kind = S("access")
    ELSE IF r.endpoint = "refresh" THEN r.rec.kind = S("refresh")
    ELSE r.rec.kind = S("admin") /\ r.rec.sub = settings.admin_email

PresentsLiveToken(r) ==
    /\ r.endpoint \in UserEndpoints \cup {"refresh"} \cup AdminEndpoints
    /\ r.rec # NoRec
    /\ Unexpired(r.rec)

\* C6 as stated: every endpoint accepts only its own kind of token, and
\* answers a live token of another kind with 401, changing nothing.
C6_OtherKind401 ==
    [][(Answered /\ PresentsLiveToken(resp')) =>
          /\ Accepted(resp') => RightKind(resp')
          /\ ~RightKind(resp') =>
                /\ resp'.status = 401
                /\ ServerUnchanged
                /\ UNCHANGED <<held, cookie>>]_vars

\* C6: every endpoint accepts only its own kind of token, and answers a
\* live token of another kind with 401, changing nothing -- except that
\* the admin endpoints answer every request with 503 while admin login
\* is not configured.
C6_OtherKindRefused ==
    [][(Answered /\ PresentsLiveToken(resp')) =>
          /\ Accepted(resp') => RightKind(resp')
          /\ ~RightKind(resp') =>
                /\ resp'.status =
                       IF resp'.endpoint \in AdminEndpoints /\ RequireAdminConfig # 200
                       THEN 503 ELSE 401
                /\ ServerUnchanged
                /\ UNCHANGED <<held, cookie>>]_vars

\* an admin token whose subject is not the configured admin email has been
\* refused by an admin endpoint
C6_Witness ==
    /\ resp.endpoint = "admin_stats"
    /\ resp.rec.kind = S("admin")
    /\ Unexpired(resp.rec)
    /\ settings.admin_email # Null
    /\ resp.rec.sub # settings.admin_email
    /\ resp.status = 401

\* the account a held token or a login request stands for, before the step
AccountOf(r) ==
    IF r.endpoint = "login" THEN DbGet(UserByEmail(r.email)) ELSE DbGet(r.rec.sub)

\* the credential of request r is missing, garbled, wrongly typed or of an
\* unknown subject
BadCredential(r) ==
    IF r.endpoint = "login"
    THEN \/ AccountOf(r) = NoUser
         \/ \A salt \in Salts : AccountOf(r).password_hash # HashPassword(r.password, salt)
    ELSE \/ r.rec = NoRec
         \/ ~RightKind(r)
         \/ AccountOf(r) = NoUser

\* C7: at the authentication call sites a bad credential is answered with
\* 401, a good one of a locked or unverified account with 403, and no
\* request is answered with a status other than 200, 401 and 403.
C7_Only401Or403 ==
    [][(Answered /\ resp'.endpoint \in UserEndpoints \cup {"login", "refresh"}) =>
          /\ resp'.status \in {200, 401, 403}
          /\ BadCredential(resp') => resp'.status = 401
          /\ (/\ ~BadCredential(resp')
              /\ resp'.endpoint # "login" => Unexpired(resp'.rec)
              /\ ~(AccountOf(resp').is_active /\ AccountOf(resp').is_verified))
                => resp'.status = 403]_vars

\* the account of a held token is in good standing
GoodStanding(rec) ==
    /\ DbGet(rec.sub) # NoUser
    /\ DbGet(rec.sub).is_active
    /\ DbGet(rec.sub).is_verified

\* every held, unexpired access or refresh token of an account in good
\* standing passes the authentication of its endpoint
HeldAccepted ==
    resp = NoResp =>
        \A h \in held :
            (h.kind \in {S("access"), S("refresh")} /\ GoodStanding(h) /\ Unexpired(h)) =>
                IF h.kind = S("access")
                THEN GetCurrentUser(BearerOf(h.tok)).status = 200
                ELSE RefreshSubject(h.tok).status = 200

\* C10: whatever logins, refreshes, logouts and password resets have
\* happened, a token issued earlier to a user who exists, is active and is
\* verified is accepted until its exp; and a logout changes nothing on the
\* server, it only clears the cookie.
C10_NoRevocation ==
    /\ []HeldAccepted
    /\ [][(Answered /\ resp'.endpoint = "logout") =>
             ServerUnchanged /\ held' = held /\ cookie' = <<>>]_vars

\* a refresh token issued before a password reset has been accepted after it
C10_Witness ==
    /\ resp.endpoint = "refresh"
    /\ resp.status = 200
    /\ resp.rec.kind = S("refresh")
    /\ \E t \in DOMAIN email_tokens :
          /\ email_tokens[t].token_type = "reset"
          /\ email_tokens[t].user_id = resp.rec.sub
          /\ email_tokens[t].used_at > resp.rec.at

(***************************************************************************)
(* Properties of hash_password and verify_password.                        *)
(***************************************************************************)
\* C8: verify_password(p2, hash_password(p)) is true when p2 = p and false
\* for every p2 different from p, whatever the salt.
C8_RoundTrip ==
    (pw.hashed /\ pw.outcome # "idle") =>
        /\ pw.plain = pw.password => pw.outcome = "True"
        /\ pw.plain # pw.password => pw.outcome = "False"

\* C9: verify_password returns a boolean and raises nothing, whatever the
\* stored string.
C9_NeverRaises == pw.outcome \in {"idle", "True", "False"}

(***************************************************************************)
(* Properties of validate_metadata.                                        *)
(***************************************************************************)
\* the document validated was None or a mapping
DocumentValidated ==
    /\ meta.kind = "document"
    /\ meta.outcome.exc # "idle"
    /\ meta.metadata.kind # "other"

\* the errors of one field, validated on its own against the document
FieldErrors(field, metadata_values) ==
    ValidateField(field, metadata_values, [errors |-> <<>>, normalized |-> <<>>]).errors

\* the document's keys that name no defined field
UnknownKeys(definitions, metadata_values) ==
    { i \in 1..Len(metadata_values) :
        \A j \in 1..Len(definitions) : definitions[j].name # metadata_values[i][1] }

\* the defined fields whose value breaks their required-ness or type rule
BrokenFields(definitions, metadata_values) ==
    { j \in 1..Len(definitions) : Len(FieldErrors(definitions[j], metadata_values)) > 0 }

\* C11: a failing validate_metadata reports every violation at once: its
\* error list has exactly one entry for each document key that names no
\* defined field and one for each defined field whose value breaks its
\* required-ness or type rule, and nothing else; it fails exactly when there
\* is such a key or field.
C11_AllErrorsReported ==
    DocumentValidated =>
        LET definitions == meta.definitions
            metadata_values == meta.metadata.pairs
            errors == meta.outcome.errors
            unknown == UnknownKeys(definitions, metadata_values)
            broken == BrokenFields(definitions, metadata_values)
        IN  /\ (meta.outcome.exc = "MetadataValidationError") <=> (unknown \cup broken # {})
            /\ \A i \in unknown :
                  Cardinality({ e \in 1..Len(errors) :
                      errors[e] = FieldError(metadata_values[i][1], "Unknown field", <<>>) }) = 1
            /\ \A j \in broken :
                  Cardinality({ e \in 1..Len(errors) :
                      errors[e] = FieldErrors(definitions[j], metadata_values)[1] }) = 1
            /\ Len(errors) = Cardinality(unknown) + Cardinality(broken)

\* a document that has an unknown key, lacks a required field and gives
\* another field a value of the wrong type has been refused with all three
C11_Witness ==
    /\ DocumentValidated
    /\ \E a, b, c \in 1..Len(meta.outcome.errors) :
          /\ meta.outcome.errors[a].message = "Unknown field"
          /\ meta.outcome.errors[b].message = "Field is required"
          /\ meta.outcome.errors[c].message = "Value must be true or false"
          /\ meta.outcome.errors[b].field # meta.outcome.errors[c].field

\* validate_metadata(None) was called and no field is required
NoneValidated ==
    /\ DocumentValidated
    /\ meta.metadata = NoMetadata
    /\ \A j \in 1..Len(meta.definitions) : ~meta.definitions[j].is_required

\* validate_metadata({}) was called with an empty field list
EmptyValidated ==
    /\ DocumentValidated
    /\ meta.metadata = Mapping(<<>>)
    /\ meta.definitions = <<>>

\* C13 as stated: validate_metadata returns None, not an empty map, both
\* when metadata is None and no field yields a value and when the field
\* list is empty and metadata is the empty map {}.
C13_NoneForBoth ==
    /\ NoneValidated => meta.outcome = Valid(NoMetadata)
    /\ EmptyValidated => meta.outcome = Valid(NoMetadata)

\* C13, amended: validate_metadata returns None when metadata is None and
\* no field yields a value; when a mapping is given it returns a map, the
\* empty map for the empty mapping and an empty field list; it returns None
\* for no mapping at all.
C13_NoneOnlyForNone ==
    /\ NoneValidated => meta.outcome = Valid(NoMetadata)
    /\ EmptyValidated => meta.outcome = Valid(Mapping(<<>>))
    /\ (DocumentValidated /\ meta.metadata.kind = "map" /\ meta.outcome.exc = "none")
          => meta.outcome.value.kind = "map"

\* None was validated against a single optional text field
C13_NoneWitness ==
    /\ DocumentValidated
    /\ meta.definitions = << FieldDefinition(NameA, "text", FALSE, NoOptions) >>
    /\ meta.metadata = NoMetadata
    /\ meta.outcome = Valid(NoMetadata)

\* {} was validated against the empty field list
C13_Witness == EmptyValidated /\ meta.outcome = Valid(Mapping(<<>>))

\* C14: for every field list and every document validate_metadata accepts,
\* validating the returned document again against the same field list
\* succeeds and returns a document equal to the first result.
C14_Idempotent ==
    (meta.kind = "document" /\ meta.stage = "revalidated") =>
        /\ meta.again.exc = "none"
        /\ meta.again.value = meta.outcome.value

\* a document with a padded select value and a padded timestamp was
\* accepted, stored trimmed, and the stored document validated again
C14_Witness ==
    /\ meta.kind = "document"
    /\ meta.stage = "revalidated"
    /\ meta.outcome.value.kind = "map"
    /\ meta.outcome.value # meta.metadata
    /\ \E j, k \in 1..Len(meta.definitions) :
          /\ meta.definitions[j].field_type = "select"
          /\ meta.definitions[k].field_type = "timestamp"
          /\ HasKey(meta.outcome.value.pairs, meta.definitions[j].name)
          /\ HasKey(meta.outcome.value.pairs, meta.definitions[k].name)

\* the select fields with a non-empty options list that the validated
\* document gives a value other than null
SelectsGiven ==
    { j \in 1..Len(meta.definitions) :
        /\ meta.definitions[j].field_type = "select"
        /\ meta.definitions[j].options.present
        /\ Len(meta.definitions[j].options.options) > 0
        /\ meta.metadata.kind = "map"
        /\ HasKey(meta.metadata.pairs, meta.definitions[j].name)
        /\ ValueOf(meta.metadata.pairs, meta.definitions[j].name) # VNone }

\* value is a string whose trimmed form is non-empty and is one of the
\* options, letter for letter
IsOption(field, value) ==
    /\ value.t = "str"
    /\ Len(Strip(value.s)) > 0
    /\ \E i \in 1..Len(field.options.options) :
          /\ Len(field.options.options[i]) = Len(Strip(value.s))
          /\ \A c \in 1..Len(Strip(value.s)) : field.options.options[i][c] = Strip(value.s)[c]

\* C15: for a select field with a non-empty options list, validate_metadata
\* accepts a value only if it is a string whose trimmed form is non-empty and
\* equals one of the options exactly and case-sensitively, and it stores
\* that trimmed form; every other value, one differing from an option only
\* in letter case included, gets an error for the field.
C15_SelectExact ==
    DocumentValidated =>
        \A j \in SelectsGiven :
            LET field == meta.definitions[j]
                value == ValueOf(meta.metadata.pairs, field.name)
            IN  /\ IsOption(field, value)
                      <=> ~\E e \in 1..Len(meta.outcome.errors) :
                              meta.outcome.errors[e].field = field.name
                /\ meta.outcome.exc = "none" =>
                      /\ HasKey(meta.outcome.value.pairs, field.name)
                      /\ ValueOf(meta.outcome.value.pairs, field.name) = VStr(Strip(value.s))

\* a select value given with spaces around it was accepted and stored
\* without them
C15_Witness ==
    /\ DocumentValidated
    /\ meta.outcome.exc = "none"
    /\ \E j \in SelectsGiven :
          /\ ValueOf(meta.metadata.pairs, meta.definitions[j].name).s
                = <<Space>> \o OptionA \o <<Space>>
          /\ ValueOf(meta.outcome.value.pairs, meta.definitions[j].name) = VStr(OptionA)

\* a select value differing from an option only in letter case was refused
C15_CaseRefused ==
    /\ DocumentValidated
    /\ \E j \in SelectsGiven :
          /\ ValueOf(meta.metadata.pairs, meta.definitions[j].name) = VStr(Lower(OptionA))
          /\ \E e \in 1..Len(meta.outcome.errors) :
                /\ meta.outcome.errors[e].field = meta.definitions[j].name
                /\ meta.outcome.errors[e].message = "Value must be one of: "

(***************************************************************************)
(* Properties of the item listing's filters and sort.                      *)
(***************************************************************************)
\* what validate_metadata makes of the string v as the value of the field
ValidatedAlone(field, v) ==
    ValidateMetadata(<< field >>, Mapping(<< <<field.name, VStr(v)>> >>))

\* C16: for every field of type date, timestamp or select and every string
\* v, the filter 'Field=v' is accepted if and only if validate_metadata
\* accepts v as that field's value, and the value compared against the
\* stored metadata of that field is the normalized form validation stores.
C16_FilterAsValidation ==
    (meta.stage = "listed" /\ Len(meta.filters) = 1) =>
        \A j \in 1..Len(meta.definitions), v \in FilterStrings :
            LET field == meta.definitions[j]
                validated == ValidatedAlone(field, v)
            IN  (/\ field.field_type \in {"date", "timestamp", "select"}
                 /\ meta.filters[1] = field.name \o <<Pad>> \o v) =>
                    /\ (meta.query.status = 200) <=> (validated.exc = "none")
                    /\ meta.query.status = 200 =>
                          meta.query.where
                              = << Where(field.name, ValueOf(validated.value.pairs, field.name)) >>

\* the sort token, spaces around it aside, is dash metadata sep F, spaces
\* around F aside
IsMetadataToken(text, dash, sep, name) ==
    LET prefix == dash \o MetadataWord \o <<sep>>
    IN  /\ StartsWith(Strip(text), prefix)
        /\ Strip(Slice(Strip(text), Len(prefix) + 1, Len(Strip(text)))) = name

\* the sort token, spaces around it aside, is name or created_at, with or
\* without the leading dash
IsColumnToken(text) ==
    Strip(text) \in { NameWord, <<Hyphen>> \o NameWord,
                      CreatedAtWord, <<Hyphen>> \o CreatedAtWord }

\* C17: for every field name F defined in the collection, each of the sort
\* tokens metadata:F, metadata.F, -metadata:F and -metadata.F is accepted and
\* orders the listing by the stored value of F, ascending without the
\* leading dash and descending with it; every token that is neither name
\* nor created_at (with optional leading dash) nor such a form naming a
\* defined field is rejected with 422. Spaces around a token are not held
\* against it, and a blank token is no token.
C17_SortTokens ==
    (meta.stage = "listed" /\ Len(meta.filters) = 0 /\ meta.sort.given
     /\ Len(Strip(meta.sort.text)) > 0) =>
        /\ \A j \in 1..Len(meta.definitions), dash \in {<<>>, <<Hyphen>>},
              sep \in {Colon, Dot} :
                IsMetadataToken(meta.sort.text, dash, sep, meta.definitions[j].name) =>
                    meta.query.order_by
                        = OrderBy("metadata", meta.definitions[j].name, dash = <<Hyphen>>)
        /\ (/\ ~IsColumnToken(meta.sort.text)
            /\ ~\E j \in 1..Len(meta.definitions), dash \in {<<>>, <<Hyphen>>},
                  sep \in {Colon, Dot} :
                    IsMetadataToken(meta.sort.text, dash, sep, meta.definitions[j].name))
              => meta.query.status = 422

(***************************************************************************)
(* Properties of the items and the field definitions of a collection.      *)
(***************************************************************************)
\* the document is null, or a map that validate_metadata accepts against
\* the definitions and returns as it is: no key outside the field names,
\* every required field present with a value other than null, and the values
\* of text, date, timestamp and select fields trimmed
StoredAsValidated(definitions, metadata) ==
    \/ metadata = NoMetadata
    \/ /\ metadata.kind = "map"
       /\ ValidateMetadata(definitions, metadata) = Valid(metadata)
       /\ \A p \in 1..Len(metadata.pairs) :
             \E j \in 1..Len(definitions) : definitions[j].name = metadata.pairs[p][1]
       /\ \A j \in 1..Len(definitions) :
             /\ definitions[j].is_required =>
                   /\ HasKey(metadata.pairs, definitions[j].name)
                   /\ ValueOf(metadata.pairs, definitions[j].name) # VNone
             /\ (/\ definitions[j].field_type \in {"text", "date", "timestamp", "select"}
                 /\ HasKey(metadata.pairs, definitions[j].name)) =>
                   LET value == ValueOf(metadata.pairs, definitions[j].name)
                   IN  value.t = "str" /\ Strip(value.s) = value.s

\* C12: across any sequence of create_item and update_item calls, every
\* metadata document stored on an item is either null or a map that
\* validate_metadata accepted against the collection's field definitions as
\* they were at the time of the write: every step that stores a document on
\* an item stores such a document, and no other step changes a stored one.
C12_StoredMetadataValid ==
    [][\A i \in 1..Len(items') :
          \/ \E k \in 1..Len(items) : items[k] = items'[i]
          \/ /\ answer'.endpoint \in {"create_item", "update_item"}
             /\ StoredAsValidated(GetFieldDefinitions(field_definitions),
                                  items'[i].metadata_)]_vars

\* update_item has stored a document holding the value of a required field
C12_Witness ==
    /\ answer = Response("update_item", 200)
    /\ \E j \in 1..Len(field_definitions) :
          /\ field_definitions[j].field.is_required
          /\ field_definitions[j].field.name = NameA
    /\ \E i \in 1..Len(items) :
          items[i].metadata_ = Mapping(<< <<NameA, VStr(OptionA)>> >>)

\* C20: delete_field removes only the field definition: the metadata stored
\* on every item of the collection, the values stored under the deleted
\* field's name included, is the same after the call as before it.
C20_DeleteFieldKeepsMetadata ==
    [][answer'.endpoint = "delete_field" =>
          /\ items' = items
          /\ \/ answer'.status = 404 /\ field_definitions' = field_definitions
             \/ /\ answer'.status = 200
                /\ \E field_id \in 1..MaxId :
                      /\ HasRow(field_definitions, field_id)
                      /\ field_definitions' = Without(field_definitions, field_id)]_vars

\* a field was deleted and an item still holds a value under a name that
\* no field definition has
C20_Witness ==
    /\ answer = Response("delete_field", 200)
    /\ \E i \in 1..Len(items) :
          /\ items[i].metadata_.kind = "map"
          /\ \E p \in 1..Len(items[i].metadata_.pairs) :
                \A j \in 1..Len(field_definitions) :
                    field_definitions[j].field.name # items[i].metadata_.pairs[p][1]

(***************************************************************************)
(* Properties of requests on the fields served at the same time.           *)
(***************************************************************************)
\* no two field definitions of the collection have the same name
UniqueNames ==
    \A i, j \in 1..Len(field_definitions) :
        field_definitions[i].field.name = field_definitions[j].field.name => i = j

\* the name the commit of the request writes is the name of another row
WouldDuplicate(r) ==
    IF r.handler = "create_field" THEN NameTaken(field_definitions, r.field.name, 0)
    ELSE /\ r.field.name # r.loaded.name
         /\ NameTaken(field_definitions, r.field.name, r.field_id)

\* C19: after any interleaving of create_field and update_field requests on
\* one collection, two requests that both passed the existence check for the
\* same name included, no two field definitions of the collection have the
\* same name; every request whose commit would create a duplicate is
\* answered with 409, and a request answered with 409 changes nothing.
C19_UniqueNames ==
    /\ []UniqueNames
    /\ [][/\ \A r \in inflight :
                (r \notin inflight' /\ WouldDuplicate(r)) =>
                    /\ answer' = Response(r.handler, 409)
                    /\ field_definitions' = field_definitions
          /\ (answer'.status = 409 /\ (answer' # answer \/ inflight' # inflight)) =>
                field_definitions' = field_definitions]_vars

\* a create_field request passed the existence check for a name, another
\* request stored that name first, and the commit was answered with 409
C19_Witness ==
    /\ meta = Race("commit")
    /\ answer = Response("create_field", 409)
    /\ inflight = {}
    /\ Len(field_definitions) = 1

(***************************************************************************)
(* Properties of the options of the fields.                                *)
(***************************************************************************)
\* every stored field, of the collection and of the template, has options
\* if and only if its type is select
StoredOptionsIffSelect ==
    /\ \A i \in 1..Len(field_definitions) :
          field_definitions[i].field.options.present
              <=> (field_definitions[i].field.field_type = "select")
    /\ \A i \in 1..Len(schema_template_fields) :
          schema_template_fields[i].field.options.present
              <=> (schema_template_fields[i].field.field_type = "select")

\* the body asks for a new field that is select without options, or of
\* another type with options
CreateWouldBreak(payload) ==
    /\ payload.field_type \in ALLOWED_FIELD_TYPES
    /\ (payload.field_type = "select") # payload.options.present

\* the body asks for a select field without options, or gives options to a
\* field of another type
UpdateWouldBreak(field, payload) ==
    LET select == IF payload.field_type.kind = "value"
                  THEN payload.field_type.word = "select"
                  ELSE field.field_type = "select"
    IN  /\ payload.field_type.kind # "null"
        /\ \/ select /\ payload.options.kind = "null"
           \/ select /\ payload.options.kind = "unset" /\ ~field.options.present
           \/ ~select /\ payload.options.kind = "value"

\* every request that would break it is answered with 422 and changes no
\* stored field
BreakingRefused ==
    /\ \A payload \in CreatePayloads :
          CreateWouldBreak(payload) =>
              /\ CreateFieldOutcome(field_definitions, payload)
                    = Outcome(422, field_definitions)
              /\ CreateSchemaTemplateFieldOutcome(schema_template_fields, payload)
                    = Outcome(422, schema_template_fields)
              /\ UpdateSchemaTemplateOutcome(schema_template_fields, << payload >>)
                    = Outcome(422, schema_template_fields)
    /\ \A payload \in UpdatePayloads :
          /\ \A i \in 1..Len(field_definitions) :
                UpdateWouldBreak(field_definitions[i].field, payload) =>
                    UpdateFieldOutcome(field_definitions, field_definitions[i].id, payload)
                        = Outcome(422, field_definitions)
          /\ \A i \in 1..Len(schema_template_fields) :
                UpdateWouldBreak(schema_template_fields[i].field, payload) =>
                    UpdateSchemaTemplateFieldOutcome(schema_template_fields,
                                                     schema_template_fields[i].id, payload)
                        = Outcome(422, schema_template_fields)

\* C18: after any sequence of field-definition creates and updates, on
\* collections and on schema templates and including the creation of a
\* collection from a template, every stored field definition has options
\* present if and only if its field_type is select; a request that would
\* break this is rejected with 422 and changes no stored field.
C18_OptionsIffSelect == StoredOptionsIffSelect /\ BreakingRefused

\* the claim map in the payload segment of the token under study
IssuedClaims == JsonLoads(B64urlDecode(Split(token.tok, Dot)[2]).bytes).dict

\* C30: every token create_access_token returns carries type access and
\* every token create_refresh_token returns carries type refresh, with sub
\* equal to the subject argument and exp equal to the issue time plus the
\* ttl, whatever additional_claims map is passed in.
C30_ReservedClaims ==
    token # NoToken =>
        /\ DictGet(IssuedClaims, "type") = token.kind
        /\ DictGet(IssuedClaims, "sub") = token.sub
        /\ IntOf(DictGet(IssuedClaims, "exp")).val = IssuedExp

\* a verification token issued to the user has been accepted
VerifyAccepted(id) ==
    \E t \in EmailTokenIds :
        /\ email_tokens[t].token_type = "verify"
        /\ email_tokens[t].user_id = id
        /\ email_tokens[t].used_at # NoTime

\* the email_tokens row of a verification token
IsVerifyToken(t) == t \in EmailTokenIds /\ email_tokens[t].token_type = "verify"

\* a login request is answered in this step
LoginStep == resp.endpoint = "none" /\ resp'.endpoint = "login"

\* a verify request is answered in this step
VerifyStep == resp.endpoint = "none" /\ resp'.endpoint = "verify"

C23_LoginRefused ==
    /\ resp.endpoint = "login"
    /\ resp.status = 403
    /\ ~VerifyAccepted(UserByEmail(resp.email))

\* the users row is locked
Locked(id) == users[id] # NoUser /\ ~users[id].is_active

\* the step answers a request that carries an unexpired access token
AccessStep ==
    /\ resp.endpoint = "none"
    /\ resp'.endpoint \in {"me", "delete_me"}
    /\ resp'.rec.kind = S("access")
    /\ Unexpired(resp'.rec)

\* the rows of users other than id, and all of the row of id but is_active
SaveActive(table, id) ==
    [u \in UserIds |-> IF u = id THEN [table[u] EXCEPT !.is_active = TRUE]
                       ELSE table[u]]

ResetStep == resp.endpoint = "none" /\ resp'.endpoint = "reset"

\* C28: each password-reset token changes a password at most once: a
\* request presenting a token succeeds only if the token is a reset token
\* no request has succeeded with before, every other request is refused
\* with 400 and leaves the password as it was, and the password changes in
\* no other way.
C28_ResetAtMostOnce ==
    [][/\ ResetStep =>
            LET t == resp'.email_token IN
            /\ resp'.status = 200 =>
                  /\ t \in EmailTokenIds
                  /\ email_tokens[t].token_type = "reset"
                  /\ email_tokens[t].used_at = NoTime
            /\ resp'.status # 200 => resp'.status = 400 /\ UNCHANGED users
       /\ users' # users => ResetStep /\ resp'.status = 200]_vars

(***************************************************************************)
(* C26: after any sequence of logged actions each user has at most         *)
(* MAX_ACTIVITY_LOGS_PER_USER activity entries, and they are the user's    *)
(* most recently created ones, a tie on the creation time going to the     *)
(* higher id: a logged action keeps, of the user's entries and the new     *)
(* one, exactly the newest up to the limit, and the entries of a user for  *)
(* whom nothing was logged stay as they were.                              *)
(***************************************************************************)
LogsOf(rows, user_id) ==
    { rows[i] : i \in { k \in 1..Len(rows) : rows[k].user_id = user_id } }

LogsWithinLimit ==
    \A user_id \in Members :
        Cardinality(LogsOf(activity_logs, user_id)) <= MAX_ACTIVITY_LOGS_PER_USER

NewestKept(user_id) ==
    LET had == LogsOf(activity_logs, user_id)
        has == LogsOf(activity_logs', user_id)
        all == had \cup has
    IN  /\ \A kept \in has, dropped \in all \ has : NewerLog(kept, dropped)
        /\ Cardinality(has) = IF Cardinality(all) < MAX_ACTIVITY_LOGS_PER_USER
                              THEN Cardinality(all)
                              ELSE MAX_ACTIVITY_LOGS_PER_USER
        /\ (has \ had = {} => has = had)

C26_LatestLogsKept ==
    /\ []LogsWithinLimit
    /\ [][activity_logs' # activity_logs =>
              /\ \E user_id \in Members :
                     LogsOf(activity_logs', user_id) \ LogsOf(activity_logs, user_id) # {}
              /\ \A user_id \in Members : NewestKept(user_id)]_vars

\* user 1 is at the limit after older entries of theirs were removed, two of
\* the kept entries were created in the same tick, and an entry of user 2
\* older than all of them is still there
C26_Witness ==
    LET mine == LogsOf(activity_logs, 1)
        theirs == LogsOf(activity_logs, 2)
    IN  /\ Cardinality(mine) = MAX_ACTIVITY_LOGS_PER_USER
        /\ \A a \in mine : a.id > MAX_ACTIVITY_LOGS_PER_USER
        /\ \E a, b \in mine : a.id # b.id /\ a.created_at = b.created_at
        /\ \E a, b \in mine : a.created_at # b.created_at
        /\ \E b \in theirs : \A a \in mine : NewerLog(a, b)

(***************************************************************************)
(* C25: under any interleaving of star and unstar requests no (user,       *)
(* collection) pair has more than one star row; the write of a star        *)
(* request for a pair that is starred, and of an unstar request for a pair *)
(* that is not, changes neither the stars nor the activity log; and the    *)
(* star_count of every 200 response is the number of distinct users with   *)
(* a star on the collection when the count is taken.                       *)
(***************************************************************************)
Starred(user_id, collection_id) ==
    ExistingStars(collection_stars, collection_id, user_id) # {}

Starring(collection_id) ==
    { user_id \in Members : Starred(user_id, collection_id) }

OneStarPerPair ==
    \A i, j \in 1..Len(collection_stars) :
        /\ collection_stars[i].user_id = collection_stars[j].user_id
        /\ collection_stars[i].collection_id = collection_stars[j].collection_id
        => i = j

C25_StarsConsistent ==
    /\ []OneStarPerPair
    /\ [][\A r \in inflight \ inflight' :
              /\ r.handler = "star_collection" /\ Starred(r.user_id, r.collection_id)
                    => UNCHANGED <<collection_stars, activity_logs>>
              /\ r.handler = "unstar_collection" /\ ~Starred(r.user_id, r.collection_id)
                    => UNCHANGED <<collection_stars, activity_logs>>
              /\ r.phase = "count"
                    => /\ answer'.status = 200
                       /\ answer'.star_count
                              = Cardinality(Starring(r.collection_id))]_vars

(***************************************************************************)
(* C29: in every state reached by the admin's feature requests and the     *)
(* owners' collection updates, two feature requests served at the same     *)
(* time included, at most one collection has is_featured set and every     *)
(* collection with is_featured set is public.                              *)
(***************************************************************************)
AtMostOneFeatured == Cardinality(FeaturedIds(collections)) <= 1

C29_FeaturedIsPublic ==
    /\ AtMostOneFeatured
    /\ \A i \in 1..Len(collections) :
           collections[i].is_featured => collections[i].is_public

(***************************************************************************)
(* C21: for a public collection the public item list and the public item   *)
(* detail return no metadata key that is a private field of the            *)
(* collection; a public list request whose filter or sort names a private  *)
(* field is refused with 422 as one naming an unknown field; and the       *)
(* response is the same for two sets of items that differ only in what is  *)
(* stored under private fields.                                            *)
(***************************************************************************)
PrivateNames ==
    { field_definitions[i].field.name :
        i \in { k \in 1..Len(field_definitions) : field_definitions[k].field.is_private } }

\* the field a filter names, and the field a metadata sort names
FilterNames(filters) ==
    { Strip(Partition(filters[i], Pad)[1]) : i \in 1..Len(filters) }

SortNames(sort) ==
    IF SortRequiresFieldDefinitions(sort)
    THEN LET sort_value == Strip(sort.text)
             sort_key == IF StartsWith(sort_value, <<Hyphen>>) THEN Tail(sort_value)
                         ELSE sort_value
         IN  { SubSeq(sort_key, Len(MetadataWord) + 2, Len(sort_key)) }
    ELSE {}

PublicAnswered ==
    /\ answer # <<>>
    /\ answer.endpoint \in {"list_public_items", "get_public_item"}

C21_PrivateHidden ==
    PublicAnswered =>
        /\ \A i \in 1..Len(answer.items) :
               \A k \in 1..Len(answer.items[i].metadata_.pairs) :
                   answer.items[i].metadata_.pairs[k][1] \notin PrivateNames
        /\ answer.status # 404
              /\ (FilterNames(answer.filters) \cup SortNames(answer.sort))
                     \cap PrivateNames # {}
              => answer.status = 422
        /\ answer.twin = [status |-> answer.status, items |-> answer.items]

\* both items have a value under the private field b, the copies do not or
\* the other way round, and the list sorted by the public field a was
\* answered with both items
C21_Witness ==
    /\ PublicAnswered
    /\ answer.endpoint = "list_public_items"
    /\ answer.status = 200
    /\ Len(answer.items) = 2
    /\ answer.sort.given /\ SortNames(answer.sort) = {NameA}
    /\ NameB \in PrivateNames
    /\ \E i \in 1..Len(items) : items[i] # meta.twin[i]
    /\ \E i \in 1..Len(items) :
           items[i].metadata_.kind = "map" /\ HasKey(items[i].metadata_.pairs, NameB)

\* a filter on the private field b was refused
C21_PrivateFilterRefused ==
    /\ PublicAnswered
    /\ answer.status = 422
    /\ NameB \in PrivateNames
    /\ NameA \notin PrivateNames
    /\ FilterNames(answer.filters) = {NameB}


(***************************************************************************)
(* C27: a template made by copying another, and a collection created from  *)
(* a template, get rows of their own for the source's field definitions,   *)
(* and no rename, field replacement, field edit or deletion of a template  *)
(* changes a field row of any other template or of any collection.         *)
(***************************************************************************)
TemplateWrites ==
    {"update_schema_template", "delete_schema_template", "create_schema_template_field",
     "update_schema_template_field", "delete_schema_template_field"}

FieldRowsOfTemplate(table, template_id) ==
    SelectSeq(table, LAMBDA r : r.schema_template_id = template_id)

FieldRowsOfCollection(table, collection_id) ==
    SelectSeq(table, LAMBDA r : r.collection_id = collection_id)

RowIds(table) == { table[i].id : i \in 1..Len(table) }

\* every field of the source is the field of a row of the copy that the
\* table did not have before
CopiedInto(source, before, copy) ==
    \A i \in 1..Len(source) :
        \E j \in 1..Len(copy) :
            /\ copy[j].field = source[i].field
            /\ copy[j].id \notin RowIds(before)

OtherTemplatesKept(template_id) ==
    \A other \in (1..MaxOwnedId) \ {template_id} :
        FieldRowsOfTemplate(schema_template_fields', other)
            = FieldRowsOfTemplate(schema_template_fields, other)

SourceWriteStep ==
    (answer' # <<>> /\ answer'.endpoint \in TemplateWrites)
        => /\ OtherTemplatesKept(answer'.parent_id)
           /\ field_definitions' = field_definitions

CopyStep ==
    (answer' # <<>> /\ answer'.endpoint = "copy_schema_template")
        => /\ OtherTemplatesKept(answer'.child_id)
           /\ field_definitions' = field_definitions
           /\ answer'.status = 201
                  => CopiedInto(FieldRowsOfTemplate(schema_template_fields,
                                                    answer'.parent_id),
                                schema_template_fields,
                                FieldRowsOfTemplate(schema_template_fields',
                                                    answer'.child_id))

CreateFromTemplateStep ==
    (answer' # <<>> /\ answer'.endpoint = "create_collection")
        => /\ schema_template_fields' = schema_template_fields
           /\ \A other \in (1..MaxOwnedId) \ {answer'.child_id} :
                  FieldRowsOfCollection(field_definitions', other)
                      = FieldRowsOfCollection(field_definitions, other)
           /\ (answer'.status = 201 /\ answer'.parent_id # 0)
                  => CopiedInto(FieldRowsOfTemplate(schema_template_fields,
                                                    answer'.parent_id),
                                field_definitions,
                                FieldRowsOfCollection(field_definitions',
                                                      answer'.child_id))

C27_OwnFieldCopies == [][SourceWriteStep /\ CopyStep /\ CreateFromTemplateStep]_vars

\* template 1 has been copied to template 2 and collection 3 created from
\* it, and then a field of template 1 was edited: the copy and the
\* collection still have the field as it was
C27_Witness ==
    /\ answer # <<>>
    /\ answer.endpoint = "update_schema_template_field"
    /\ answer.status = 200
    /\ answer.parent_id = 1
    /\ \E i \in 1..Len(schema_templates) :
           schema_templates[i].id = 2 /\ schema_templates[i].owner_id = 1
    /\ \E i \in 1..Len(collections) : collections[i].id = 3
    /\ \A i \in 1..Len(schema_template_fields) :
           schema_template_fields[i].schema_template_id = 1
               => schema_template_fields[i].field.name = NameB
    /\ \E i \in 1..Len(schema_template_fields) :
           /\ schema_template_fields[i].schema_template_id = 2
           /\ schema_template_fields[i].field.name = NameA
    /\ \E i \in 1..Len(field_definitions) :
           /\ field_definitions[i].collection_id = 3
           /\ field_definitions[i].field.name = NameA

\* the source was deleted or had its fields replaced after the copy, and
\* the copy has its field
C27_SourceGone ==
    /\ answer # <<>>
    /\ answer.endpoint \in {"delete_schema_template", "update_schema_template"}
    /\ answer.status = 200
    /\ answer.parent_id = 1
    /\ \A i \in 1..Len(schema_template_fields) :
           schema_template_fields[i].schema_template_id = 1
               => schema_template_fields[i].field.name # NameA
    /\ \E i \in 1..Len(schema_template_fields) :
           /\ schema_template_fields[i].schema_template_id = 2
           /\ schema_template_fields[i].field.name = NameA


(***************************************************************************)
(* C22: a read, update, delete or copy request on a collection, field      *)
(* definition, item or schema template of another user is answered 404,    *)
(* or 422 when it carries a body and the body fails validation, and        *)
(* leaves all stored data unchanged.                                       *)
(***************************************************************************)
TemplateEndpoints ==
    {"get_schema_template", "copy_schema_template", "update_schema_template",
     "delete_schema_template"}

CollectionEndpoints ==
    {"get_collection", "update_collection", "delete_collection", "list_fields",
     "create_field", "create_item"}

FieldEndpoints == {"update_field", "delete_field"}

\* the endpoints whose request has a body
BodyEndpoints ==
    {"copy_schema_template", "update_schema_template", "create_collection",
     "update_collection", "create_field", "update_field", "create_item", "update_item"}

ItemEndpoints == {"get_item", "update_item", "delete_item"}

\* the row with this id has an owner, and it is not the user
OfAnother(rows, id, user_id) ==
    \E i \in 1..Len(rows) : rows[i].id = id /\ rows[i].owner_id # user_id

\* the row with this id belongs to a collection of another user
InCollectionOfAnother(table, id, user_id) ==
    \E i \in 1..Len(table) :
        table[i].id = id /\ OfAnother(collections, table[i].collection_id, user_id)

\* the request answered by a names, in the state before it, a template, a
\* collection, a field or an item of a user other than the one who asked
OnForeignResource(a) ==
    \/ /\ a.endpoint \in TemplateEndpoints
       /\ OfAnother(schema_templates, a.parent_id, a.user_id)
    \/ /\ a.endpoint = "create_collection"
       /\ OfAnother(schema_templates, a.parent_id, a.user_id)
    \/ /\ a.endpoint \in CollectionEndpoints \cup FieldEndpoints \cup ItemEndpoints
       /\ OfAnother(collections, a.parent_id, a.user_id)
    \/ /\ a.endpoint \in FieldEndpoints
       /\ InCollectionOfAnother(field_definitions, a.child_id, a.user_id)
    \/ /\ a.endpoint \in ItemEndpoints
       /\ InCollectionOfAnother(items, a.child_id, a.user_id)

StoredDataKept ==
    UNCHANGED <<schema_templates, schema_template_fields, collections, field_definitions,
                items, collection_stars, activity_logs>>

C22_InvalidBody ==
    /\ answer # <<>>
    /\ answer.endpoint = "copy_schema_template"
    /\ answer.user_id = 2
    /\ answer.parent_id = 1
    /\ answer.status = 422
    /\ HasTemplate(schema_templates, 1, 1)

====
